---- MODULE Spec2Model ----
(***************************************************************************)
(* Model of the mode, control and streaming core of the imx307 V4L2 sensor *)
(* driver (src/imx307.c).                                                  *)
(*                                                                         *)
(* Two execution contexts are modelled: "user" (the V4L2 request thread:   *)
(* s_stream, set_fmt, s_ctrl) and "pm" (the system-sleep callbacks         *)
(* imx307_suspend / imx307_resume).  Each context has a program counter;   *)
(* one action is one statement (or one callee) of the handler it is in.    *)
(***************************************************************************)
EXTENDS Integers, Sequences, FiniteSets, TLC

VARIABLES
    pc,            \* [Ctx -> label]: position of each context
    op,            \* [Ctx -> name of the handler the context is in]
    arg,           \* [Ctx -> the handler's arguments]
    ret,           \* [Ctx -> int]: the local "ret" / the value returned
    ci,            \* [Ctx -> index]: loop index of __v4l2_ctrl_handler_setup
    mutex,         \* imx307->mutex: its owner, or NoOwner
    streaming,     \* imx307->streaming
    mode,          \* imx307->mode, as an index into supported_modes
    fmt_code,      \* imx307->fmt.code, an entry of codes
    cur,           \* [Ctrl -> int]: the stored (current) control values
    ctrl_val,      \* [Flips -> int]: ctrl->val of hflip/vflip, the "new" value
    rng,           \* [Ctrl -> [min, max, def]]: the control ranges
    grabbed,       \* [{"hflip","vflip"} -> BOOLEAN]: V4L2_CTRL_FLAG_GRABBED
    usage_count,   \* runtime-PM usage counter of the device
    held_refs,     \* references taken by this driver and not yet put back
    rpm_status,    \* runtime-PM status: "active" or "suspended"
    idle_pending,  \* an idle request queued by pm_runtime_put is outstanding
    asleep,        \* TRUE between imx307_suspend and imx307_resume
    hw,            \* [Reg -> int]: sensor registers (Unset after power-up)
    log,           \* [Ctx -> Seq(event)]: what the running handler did so far
    entry,         \* [Ctx -> snapshot of the state when the handler was called]
    out,           \* [Ctx -> the format the handler hands back to its caller]
    try_fmt,       \* [pad -> the TRY format of the file handle, opened after probe]
    budget         \* handler calls the run may still make (Unlimited: any number)

vars == <<pc, op, arg, ret, ci, mutex, streaming, mode, fmt_code, cur, ctrl_val,
          rng,
          grabbed, usage_count, held_refs, rpm_status, idle_pending, asleep, hw, log, entry, out, try_fmt, budget>>

Ctx == {"user", "pm"}
NoOwner == "none"

\* ---------------------------------------------------------------- constants
EIO == 0 - 5
ENOMEM == 0 - 12
EBUSY == 0 - 16
EINVAL == 0 - 22
ERANGE == 0 - 34
EACCES == 0 - 13

imx307_REG_VALUE_08BIT == 1
imx307_REG_VALUE_16BIT == 2
imx307_MODE_STANDBY == 0
imx307_MODE_STREAMING == 1
imx307_VTS_MAX == 65535
imx307_VBLANK_MIN == 4
imx307_PPL_DEFAULT == 3448
imx307_EXPOSURE_MIN == 4
imx307_EXPOSURE_DEFAULT == 1600
imx307_ANA_GAIN_MAX == 232
imx307_DGTL_GAIN_MIN == 256
imx307_DGTL_GAIN_MAX == 4095
imx307_TESTP_COLOUR_MAX == 1023
imx307_PIXEL_RATE == 182400000
NumFramefmtRegs == 3
imx307_EMBEDDED_LINE_WIDTH == 16384
imx307_NUM_EMBEDDED_LINES == 1
NUM_PADS == 2
IMAGE_PAD == 0

\* A register that was not written since the sensor was powered up.
Unset == 0 - 1

\* ------------------------------------------------------------------ bounds
\* The number of handler calls a run of the concurrent specification makes.
MaxConcCalls == 3
\* The number of handler calls a run of the format specification makes.
MaxFmtCalls == 4
\* Requests made in a run of SpecVts.
MaxVtsCalls == 6
\* Requests made in a run of SpecTry.
MaxTryCalls == 4
Unlimited == 0 - 1
\* The number of handler calls a run still makes once the usage counter has
\* been taken below zero by a put without a matching get.
MaxCallsAfterUnderflow == 2

\* ------------------------------------------------------------------ tables
\* supported_modes[]: width, height, vts_def and the length of reg_list.
supported_modes ==
    << [width |-> 3280, height |-> 2464, vts_def |-> 3526, num_of_regs |-> 54],
       [width |-> 1920, height |-> 1080, vts_def |-> 1763, num_of_regs |-> 56],
       [width |-> 1640, height |-> 1232, vts_def |-> 1763, num_of_regs |-> 54],
       [width |-> 640,  height |-> 480,  vts_def |-> 1763, num_of_regs |-> 54] >>

NumModes == Len(supported_modes)

\* codes[]: 4 flip variants per bit depth, 10-bit group first.
codes == << "SRGGB10", "SGRBG10", "SGBRG10", "SBGGR10",
            "SRGGB8",  "SGRBG8",  "SGBRG8",  "SBGGR8" >>

\* imx307_test_pattern_val[]
imx307_test_pattern_val == << 0, 2, 1, 3, 4 >>

\* The controls in the order imx307_init_controls registers them.
CtrlOrder == << "pixel_rate", "vblank", "hblank", "exposure", "again", "dgain",
                "hflip", "vflip", "test_pattern",
                "tp_red", "tp_greenr", "tp_blue", "tp_greenb" >>

Ctrl == { CtrlOrder[i] : i \in 1..Len(CtrlOrder) }
ReadOnlyCtrl == {"pixel_rate", "hblank"}
Flips == {"hflip", "vflip"}

Reg == {"TABLE", "FMT", "MODE_SELECT", "VTS", "EXPOSURE", "ANALOG_GAIN",
        "DIGITAL_GAIN", "ORIENTATION", "TEST_PATTERN",
        "TESTP_RED", "TESTP_GREENR", "TESTP_BLUE", "TESTP_GREENB"}

Min(a, b) == IF a < b THEN a ELSE b
Max(a, b) == IF a > b THEN a ELSE b
Abs(a) == IF a < 0 THEN 0 - a ELSE a

\* ------------------------------------------------------------------ events
\* One entry of log: e is the kind of event, a its object, v its value, ok
\* whether it succeeded, held whether the driver held a power reference then.
Ev(e, a, v, ok, held) == [e |-> e, a |-> a, v |-> v, ok |-> ok, held |-> held]

\* ------------------------------------------------- control-plane operators
\* The operators below transform a record S holding the part of the state a
\* control operation reads and writes:
\*   mode, cur, val, rng, hw     as the variables of the same name,
\*   usage, refs                 usage_count, held_refs,
\*   status                      rpm_status (constant during one operation),
\*   evs                         the events appended to the caller's log,
\*   wn                          the number of register writes issued so far,
\*   r                           the value returned by the last call.
\* F is the set of write numbers (1 = first write of the step) whose I2C
\* transfer fails.

\* The len argument the driver passes to imx307_write_reg for a register.
RegLen(reg) ==
    IF reg \in {"ANALOG_GAIN", "ORIENTATION", "MODE_SELECT"}
    THEN imx307_REG_VALUE_08BIT
    ELSE imx307_REG_VALUE_16BIT

\* imx307_write_reg: a single register write.  It fails (-EIO) when the
\* transfer fails; a sensor that is powered off does not answer.  The low
\* len bytes of val are sent (val << (8 * (4 - len)) in a u32); the event
\* records val as it was passed.
imx307_write_reg(S, reg, val, F) ==
    LET n  == S.wn + 1
        ok == S.status = "active" /\ n \notin F
    IN  [S EXCEPT !.wn  = n,
                  !.hw  = IF ok THEN [@ EXCEPT ![reg] = val % (2 ^ (8 * RegLen(reg)))]
                          ELSE @,
                  !.evs = Append(@, Ev("write", reg, val, ok, S.refs > 0)),
                  !.r   = IF ok THEN 0 ELSE EIO]

\* The register and value imx307_set_ctrl writes for a control whose new
\* value is val (the switch of lines 752-803).
CtrlReg(id) ==
    CASE id = "again"        -> "ANALOG_GAIN"
      [] id = "exposure"     -> "EXPOSURE"
      [] id = "dgain"        -> "DIGITAL_GAIN"
      [] id = "test_pattern" -> "TEST_PATTERN"
      [] id \in Flips        -> "ORIENTATION"
      [] id = "vblank"       -> "VTS"
      [] id = "tp_red"       -> "TESTP_RED"
      [] id = "tp_greenr"    -> "TESTP_GREENR"
      [] id = "tp_blue"      -> "TESTP_BLUE"
      [] id = "tp_greenb"    -> "TESTP_GREENB"
      [] OTHER               -> "none"

CtrlRegVal(S, id, val) ==
    CASE id = "test_pattern" -> imx307_test_pattern_val[val + 1]
      [] id \in Flips        -> S.val["hflip"] + 2 * S.val["vflip"]
      [] id = "vblank"       -> supported_modes[S.mode].height + val
      [] OTHER               -> val

\* std_validate for the integer and boolean controls: the value is brought
\* into [min, max] (step is 1 for every control of this driver).
Clamp(v, lo, hi) == IF v < lo THEN lo ELSE IF v > hi THEN hi ELSE v

\* pm_runtime_get_if_in_use: a reference is taken, and TRUE returned, when
\* the device is active and its usage counter is not zero (the counter is
\* incremented unless it is zero).
pm_runtime_get_if_in_use(S) == S.status = "active" /\ S.usage # 0

RECURSIVE imx307_set_ctrl(_, _, _, _)
RECURSIVE v4l2_set_ctrl(_, _, _, _)
RECURSIVE v4l2_ctrl_modify_range(_, _, _, _, _, _)

\* imx307_set_ctrl: the s_ctrl callback, called with ctrl->val = val.
imx307_set_ctrl(S, id, val, F) ==
    LET exposure_max == supported_modes[S.mode].height + val - 4
        exposure_def == Min(exposure_max, imx307_EXPOSURE_DEFAULT)
        S0 == [S EXCEPT !.evs = Append(@, Ev("s_ctrl", id, val, TRUE, S.refs > 0))]
        S1 == IF id = "vblank"
              THEN v4l2_ctrl_modify_range(S0, "exposure",
                       S0.rng["exposure"].min, exposure_max, exposure_def, F)
              ELSE S0
    IN  IF ~pm_runtime_get_if_in_use(S1)
        THEN \* line 749: not in use, nothing is written
             [S1 EXCEPT !.r = 0]
        ELSE LET S2 == [S1 EXCEPT !.usage = @ + 1, !.refs = @ + 1]
                 S3 == IF CtrlReg(id) = "none"
                       THEN [S2 EXCEPT !.r = EINVAL]
                       ELSE imx307_write_reg(S2, CtrlReg(id),
                                             CtrlRegVal(S2, id, val), F)
             IN  \* pm_runtime_put
                 [S3 EXCEPT !.usage = @ - 1, !.refs = @ - 1]

\* set_ctrl / try_or_set_cluster of the control framework, handler lock held:
\* validate, refuse a grabbed control, skip an unchanged value, call s_ctrl
\* and keep the new value only when s_ctrl succeeded.
v4l2_set_ctrl(S, id, new, F) ==
    LET v  == Clamp(new, S.rng[id].min, S.rng[id].max)
        \* the value is already in ctrl->val when the checks below are made
        S0 == IF id \in Flips THEN [S EXCEPT !.val[id] = v] ELSE S
    IN  IF id = "test_pattern" /\ v # new
        THEN [S EXCEPT !.r = ERANGE]
        ELSE IF id \in Flips /\ S.grabbed[id]
        THEN [S0 EXCEPT !.r = EBUSY]
        ELSE IF v = S.cur[id]
        THEN [S0 EXCEPT !.r = 0]
        ELSE LET S1 == imx307_set_ctrl(S0, id, v, F)
             IN  IF S1.r # 0 THEN S1 ELSE [S1 EXCEPT !.cur[id] = v]

\* __v4l2_ctrl_modify_range: new range, then the current value is brought
\* into it and, when that changes it, set through set_ctrl.
v4l2_ctrl_modify_range(S, id, min, max, def, F) ==
    IF min > max \/ def < min \/ def > max
    THEN [S EXCEPT !.r = ERANGE]
    ELSE LET S1  == [S EXCEPT !.rng[id] = [min |-> min, max |-> max, def |-> def]]
             new == Clamp(S.cur[id], min, max)
         IN  IF new # S.cur[id]
             THEN v4l2_set_ctrl(S1, id, new, F)
             ELSE [S1 EXCEPT !.r = 0]

\* The record S for the current state.
CtlState ==
    [mode |-> mode, cur |-> cur, val |-> ctrl_val, rng |-> rng, hw |-> hw,
     usage |-> usage_count, refs |-> held_refs,
     status |-> rpm_status, grabbed |-> grabbed, evs |-> <<>>, wn |-> 0, r |-> 0]


\* ------------------------------------------------- state after attach
\* imx307_init_controls with imx307->mode = &supported_modes[0]: the range
\* [min, max, def] of every control; each control starts at its default.
Range(lo, hi, d) == [min |-> lo, max |-> hi, def |-> d]

InitRng ==
    LET md == supported_modes[1]
        hblank == imx307_PPL_DEFAULT - md.width
        exposure_max == md.vts_def - 4
    IN  [id \in Ctrl |->
          CASE id = "pixel_rate"   -> Range(imx307_PIXEL_RATE, imx307_PIXEL_RATE,
                                           imx307_PIXEL_RATE)
            [] id = "vblank"       -> Range(imx307_VBLANK_MIN,
                                           imx307_VTS_MAX - md.height,
                                           md.vts_def - md.height)
            [] id = "hblank"       -> Range(hblank, hblank, hblank)
            [] id = "exposure"     -> Range(imx307_EXPOSURE_MIN, exposure_max,
                                           Min(exposure_max, imx307_EXPOSURE_DEFAULT))
            [] id = "again"        -> Range(0, imx307_ANA_GAIN_MAX, 0)
            [] id = "dgain"        -> Range(imx307_DGTL_GAIN_MIN, imx307_DGTL_GAIN_MAX,
                                           imx307_DGTL_GAIN_MIN)
            [] id \in Flips        -> Range(0, 1, 0)
            [] id = "test_pattern" -> Range(0, Len(imx307_test_pattern_val) - 1, 0)
            [] OTHER               -> Range(0, imx307_TESTP_COLOUR_MAX,
                                           imx307_TESTP_COLOUR_MAX)]

InitCur == [id \in Ctrl |-> InitRng[id].def]

InitSnapshot ==
    [streaming |-> FALSE, mode |-> 1, fmt_code |-> "SRGGB10",
     cur |-> InitCur, rng |-> InitRng, grabbed |-> [f \in Flips |-> FALSE],
     usage |-> 0, mutex |-> NoOwner]

\* ------------------------------------------------------ inputs of the model
\* Results of imx307_power_on as seen through pm_runtime_get_sync: success,
\* or the error of the regulator or clock framework.
PowerOnResults == {0, EIO, ENOMEM}

\* The table entry (1-based) at which a simulated transport error is injected
\* into imx307_write_regs: the first, the fifth, and the last of the table.
FailAt(n) == {1, 5, n}

\* ----------------------------------------------------------------- helpers
Goto(c, l) == pc' = [pc EXCEPT ![c] = l]
Emit(c, evs) == log' = [log EXCEPT ![c] = @ \o evs]
SetRet(c, r) == ret' = [ret EXCEPT ![c] = r]
Held == held_refs > 0

\* What the handler sees of the instance when it is entered.
Snapshot ==
    [streaming |-> streaming, mode |-> mode, fmt_code |-> fmt_code,
     cur |-> cur, rng |-> rng, grabbed |-> grabbed, usage |-> usage_count,
     mutex |-> mutex]

NoArg == [enable |-> FALSE, id |-> "none", v |-> 0, pad |-> 0, code |-> "none",
          w |-> 0, h |-> 0, which |-> "ACTIVE"]

\* The struct v4l2_subdev_format of a handler that has not filled it in.
NoFormat == [code |-> "none", width |-> 0, height |-> 0]

\* A context enters handler o with arguments a at label l.  A queued idle
\* request is served before the next handler is entered.
Call(c, o, a, l) ==
    /\ pc[c] = "idle"
    /\ ~idle_pending
    /\ budget # 0
    /\ budget' = IF budget = Unlimited THEN budget ELSE budget - 1
    /\ pc' = [pc EXCEPT ![c] = l]
    /\ op' = [op EXCEPT ![c] = o]
    /\ arg' = [arg EXCEPT ![c] = a]
    /\ entry' = [entry EXCEPT ![c] = Snapshot]
    /\ UNCHANGED <<ret, ci, mutex, streaming, mode, fmt_code, cur, ctrl_val, rng,
                   grabbed, usage_count, held_refs, rpm_status, idle_pending, asleep, hw, log,
                   out, try_fmt>>

\* Where imx307_start_streaming / imx307_stop_streaming return to.
StartReturn(c) == IF op[c] = "set_stream" THEN "ss_started" ELSE "rs_started"
StopReturn(c) ==
    CASE op[c] = "set_stream" -> "ss_stopped"
      [] op[c] = "suspend"    -> "su_ret"
      [] OTHER                -> "rs_err"

\* ------------------------------------------------------------- runtime PM
\* The deferred idle request of pm_runtime_put: with no user left the device
\* is runtime-suspended (imx307_power_off) and the sensor loses its registers.
RpmIdle ==
    /\ idle_pending
    /\ idle_pending' = FALSE
    /\ IF usage_count <= 0 /\ rpm_status = "active"
       THEN /\ rpm_status' = "suspended"
            /\ hw' = [r \in Reg |-> Unset]
       ELSE UNCHANGED <<rpm_status, hw>>
    /\ UNCHANGED <<pc, op, arg, ret, ci, mutex, streaming, mode, fmt_code, cur,
                   ctrl_val, rng, grabbed, usage_count, held_refs, asleep, log,
                   entry, out, try_fmt, budget>>

\* pm_runtime_put: drop one reference; the drop to zero queues an idle request.
\* The counter is a plain signed counter: a put without a matching get takes
\* it below zero.
pm_runtime_put(c) ==
    /\ usage_count' = usage_count - 1
    /\ held_refs' = Max(held_refs - 1, 0)
    /\ idle_pending' = (idle_pending \/ usage_count - 1 = 0)
    /\ budget' = IF held_refs = 0 /\ budget = Unlimited
                 THEN MaxCallsAfterUnderflow ELSE budget
    /\ Emit(c, << Ev("put", "power", usage_count - 1, TRUE, Held) >>)

\* ------------------------------------------------- imx307_start_streaming
\* A get_sync whose failure branch lacks the pm_runtime_put_noidle.
StGetSync_Leak(c) ==
    /\ pc[c] = "st_get"
    /\ \E e \in PowerOnResults :
         /\ (rpm_status = "active") => (e = 0)
         /\ usage_count' = usage_count + 1
         /\ IF e = 0
            THEN /\ held_refs' = held_refs + 1
                 /\ rpm_status' = "active"
                 /\ idle_pending' = FALSE
                 /\ Emit(c, << Ev("get_sync", "power", 0, TRUE, Held) >>)
                 /\ Goto(c, "st_regs")
                 /\ UNCHANGED ret
            ELSE /\ Emit(c, << Ev("get_sync", "power", e, FALSE, Held) >>)
                 /\ SetRet(c, e)
                 /\ Goto(c, StartReturn(c))
                 /\ UNCHANGED <<held_refs, rpm_status, idle_pending>>
    /\ UNCHANGED <<op, arg, ci, mutex, streaming, mode, fmt_code, cur, ctrl_val,
                   rng, grabbed, asleep, hw, entry, out, try_fmt, budget>>

\* pm_runtime_get_sync (lines 1106-1110): take a reference and resume the
\* device; on failure the reference is dropped again (pm_runtime_put_noidle).
StGetSync(c) ==
    /\ pc[c] = "st_get"
    /\ \E e \in PowerOnResults :
         /\ (rpm_status = "active") => (e = 0)
         /\ IF e = 0
            THEN /\ usage_count' = usage_count + 1
                 /\ held_refs' = held_refs + 1
                 /\ rpm_status' = "active"
                 /\ idle_pending' = FALSE
                 /\ Emit(c, << Ev("get_sync", "power", 0, TRUE, Held) >>)
                 /\ Goto(c, "st_regs")
                 /\ UNCHANGED ret
            ELSE /\ Emit(c, << Ev("get_sync", "power", e, FALSE, Held),
                               Ev("put_noidle", "power", usage_count, TRUE, Held) >>)
                 /\ SetRet(c, e)
                 /\ Goto(c, StartReturn(c))
                 /\ UNCHANGED <<usage_count, held_refs, rpm_status, idle_pending>>
    /\ UNCHANGED <<op, arg, ci, mutex, streaming, mode, fmt_code, cur, ctrl_val,
                   rng, grabbed, asleep, hw, entry, out, try_fmt, budget>>

\* imx307_write_regs on a table of n entries written for register group g
\* with value v when complete: k entries are written, entry k+1 fails.
WriteRegs(c, g, v, n, k) ==
    /\ hw' = IF k = 0 THEN hw
             ELSE [hw EXCEPT ![g] = IF k = n THEN v ELSE 0,
                             !["MODE_SELECT"] =
                                 IF g = "TABLE" THEN imx307_MODE_STANDBY ELSE @]
    /\ Emit(c, << Ev("write_regs", g, k, k = n, Held) >>)
    /\ SetRet(c, IF k = n THEN 0 ELSE EIO)

\* Lines 1112-1118: the register table of the active mode.
StRegs(c) ==
    /\ pc[c] = "st_regs"
    /\ LET n == supported_modes[mode].num_of_regs
       IN  \E k \in {n} \cup { f - 1 : f \in FailAt(n) } :
             /\ (rpm_status # "active") => (k = 0)
             /\ WriteRegs(c, "TABLE", mode, n, k)
             /\ Goto(c, IF k = n THEN "st_fmt" ELSE "st_err")
    /\ UNCHANGED <<op, arg, ci, mutex, streaming, mode, fmt_code, cur, ctrl_val,
                   rng, grabbed, usage_count, held_refs, rpm_status, idle_pending, asleep,
                   entry, out, try_fmt, budget>>

\* The bit depth imx307_set_framefmt selects for a code (0: not in the switch).
FramefmtDepth(code) ==
    IF code \in {"SRGGB8", "SGRBG8", "SGBRG8", "SBGGR8"} THEN 8
    ELSE IF code \in {"SRGGB10", "SGRBG10", "SGBRG10", "SBGGR10"} THEN 10
    ELSE 0

\* A start that goes on to the controls without writing the format triple.
StFmt_Skipped(c) ==
    /\ pc[c] = "st_fmt"
    /\ Goto(c, "st_setup")
    /\ UNCHANGED <<op, arg, ret, ci, mutex, streaming, mode, fmt_code, cur,
                   ctrl_val, rng, grabbed, usage_count, held_refs, rpm_status,
                   idle_pending, asleep, hw, log, entry, out, try_fmt, budget>>

\* Lines 1120-1125: imx307_set_framefmt.
StFmt(c) ==
    /\ pc[c] = "st_fmt"
    /\ IF FramefmtDepth(fmt_code) = 0
       THEN /\ SetRet(c, EINVAL)
            /\ Goto(c, "st_err")
            /\ UNCHANGED <<hw, log>>
       ELSE \E k \in 0..NumFramefmtRegs :
             /\ (rpm_status # "active") => (k = 0)
             /\ WriteRegs(c, "FMT", FramefmtDepth(fmt_code), NumFramefmtRegs, k)
             /\ Goto(c, IF k = NumFramefmtRegs THEN "st_setup" ELSE "st_err")
    /\ UNCHANGED <<op, arg, ci, mutex, streaming, mode, fmt_code, cur, ctrl_val,
                   rng, grabbed, usage_count, held_refs, rpm_status, idle_pending, asleep,
                   entry, out, try_fmt, budget>>

\* The controls __v4l2_ctrl_handler_setup calls s_ctrl for: all but the
\* read-only ones, in registration order.
SetupOrder == SelectSeq(CtrlOrder, LAMBDA id : id \notin ReadOnlyCtrl)

\* The variables a control operation leaves in S.
ApplyCtl(c, S) ==
    /\ cur' = S.cur
    /\ ctrl_val' = S.val
    /\ rng' = S.rng
    /\ hw' = S.hw
    /\ usage_count' = S.usage
    /\ held_refs' = S.refs
    /\ Emit(c, S.evs)

\* One iteration of __v4l2_ctrl_handler_setup (lines 1127-1130): cur_to_new,
\* then s_ctrl; the first error ends the loop.
StSetup(c) ==
    /\ pc[c] = "st_setup"
    /\ LET id == SetupOrder[ci[c]]
           S0 == IF id \in Flips
                 THEN [CtlState EXCEPT !.val[id] = cur[id]]
                 ELSE CtlState
       IN  \E F \in SUBSET (1..2) :
             LET S == imx307_set_ctrl(S0, id, cur[id], F)
             IN  /\ ApplyCtl(c, S)
                 /\ SetRet(c, S.r)
                 /\ IF S.r # 0
                    THEN Goto(c, "st_err") /\ ci' = [ci EXCEPT ![c] = 1]
                    ELSE IF ci[c] = Len(SetupOrder)
                    THEN Goto(c, "st_on") /\ ci' = [ci EXCEPT ![c] = 1]
                    ELSE Goto(c, "st_setup") /\ ci' = [ci EXCEPT ![c] = @ + 1]
    /\ UNCHANGED <<op, arg, mutex, streaming, mode, fmt_code, grabbed,
                   rpm_status, idle_pending, asleep, entry, out, try_fmt, budget>>

\* Lines 1132-1136: the streaming-enable write.
StOn(c) ==
    /\ pc[c] = "st_on"
    /\ \E F \in SUBSET {1} :
         LET S == imx307_write_reg(CtlState, "MODE_SELECT",
                                   imx307_MODE_STREAMING, F)
         IN  /\ hw' = S.hw
             /\ Emit(c, S.evs)
             /\ SetRet(c, S.r)
             /\ Goto(c, IF S.r = 0 THEN "st_grab" ELSE "st_err")
    /\ UNCHANGED <<op, arg, ci, mutex, streaming, mode, fmt_code, cur, ctrl_val,
                   rng, grabbed, usage_count, held_refs, rpm_status, idle_pending, asleep,
                   entry, out, try_fmt, budget>>

\* A start that grabs vflip only.
StGrab_VflipOnly(c) ==
    /\ pc[c] = "st_grab"
    /\ grabbed' = [f \in Flips |-> f = "vflip"]
    /\ Emit(c, << Ev("grab", "flips", 1, TRUE, Held) >>)
    /\ SetRet(c, 0)
    /\ Goto(c, StartReturn(c))
    /\ UNCHANGED <<op, arg, ci, mutex, streaming, mode, fmt_code, cur, ctrl_val,
                   rng, usage_count, held_refs, rpm_status, idle_pending, asleep, hw, entry, out, try_fmt, budget>>

\* Lines 1138-1142: the flips are grabbed and start returns 0.
StGrab(c) ==
    /\ pc[c] = "st_grab"
    /\ grabbed' = [f \in Flips |-> TRUE]
    /\ Emit(c, << Ev("grab", "flips", 1, TRUE, Held) >>)
    /\ SetRet(c, 0)
    /\ Goto(c, StartReturn(c))
    /\ UNCHANGED <<op, arg, ci, mutex, streaming, mode, fmt_code, cur, ctrl_val,
                   rng, usage_count, held_refs, rpm_status, idle_pending, asleep, hw, entry, out, try_fmt, budget>>

\* A start whose error path forgets the pm_runtime_put.
StErr_KeepsReference(c) ==
    /\ pc[c] = "st_err"
    /\ Goto(c, StartReturn(c))
    /\ UNCHANGED <<op, arg, ret, ci, mutex, streaming, mode, fmt_code, cur,
                   ctrl_val, rng, grabbed, usage_count, held_refs, rpm_status,
                   idle_pending, asleep, hw, log, entry, out, try_fmt, budget>>

\* Lines 1144-1146, err_rpm_put: the reference is dropped, ret is returned.
StErr(c) ==
    /\ pc[c] = "st_err"
    /\ pm_runtime_put(c)
    /\ Goto(c, StartReturn(c))
    /\ UNCHANGED <<op, arg, ret, ci, mutex, streaming, mode, fmt_code, cur,
                   ctrl_val, rng, grabbed, rpm_status, asleep, hw, entry, out, try_fmt>>

\* -------------------------------------------------- imx307_stop_streaming
\* A stop that returns as soon as the streaming-disable write fails.
SpWrite_Abort(c) ==
    /\ pc[c] = "sp_write"
    /\ \E F \in SUBSET {1} :
         LET S == imx307_write_reg(CtlState, "MODE_SELECT",
                                   imx307_MODE_STANDBY, F)
         IN  /\ hw' = S.hw
             /\ Emit(c, S.evs)
             /\ Goto(c, IF S.r = 0 THEN "sp_grab" ELSE StopReturn(c))
    /\ UNCHANGED <<op, arg, ret, ci, mutex, streaming, mode, fmt_code, cur,
                   ctrl_val, rng, grabbed, usage_count, held_refs, rpm_status, idle_pending,
                   asleep, entry, out, try_fmt, budget>>

\* Lines 1154-1158: the streaming-disable write; its failure is only logged.
SpWrite(c) ==
    /\ pc[c] = "sp_write"
    /\ \E F \in SUBSET {1} :
         LET S == imx307_write_reg(CtlState, "MODE_SELECT",
                                   imx307_MODE_STANDBY, F)
         IN  /\ hw' = S.hw
             /\ Emit(c, S.evs)
    /\ Goto(c, "sp_grab")
    /\ UNCHANGED <<op, arg, ret, ci, mutex, streaming, mode, fmt_code, cur,
                   ctrl_val, rng, grabbed, usage_count, held_refs, rpm_status, idle_pending,
                   asleep, entry, out, try_fmt, budget>>

\* A stop that leaves the flips grabbed.
SpGrab_KeepsFlips(c) ==
    /\ pc[c] = "sp_grab"
    /\ Goto(c, "sp_put")
    /\ UNCHANGED <<op, arg, ret, ci, mutex, streaming, mode, fmt_code, cur,
                   ctrl_val, rng, grabbed, usage_count, held_refs, rpm_status,
                   idle_pending, asleep, hw, log, entry, out, try_fmt, budget>>

\* Lines 1160-1161: the flips are released.
SpGrab(c) ==
    /\ pc[c] = "sp_grab"
    /\ grabbed' = [f \in Flips |-> FALSE]
    /\ Emit(c, << Ev("grab", "flips", 0, TRUE, Held) >>)
    /\ Goto(c, "sp_put")
    /\ UNCHANGED <<op, arg, ret, ci, mutex, streaming, mode, fmt_code, cur,
                   ctrl_val, rng, usage_count, held_refs, rpm_status, idle_pending, asleep,
                   hw, entry, out, try_fmt, budget>>

\* Line 1163: pm_runtime_put.
SpPut(c) ==
    /\ pc[c] = "sp_put"
    /\ pm_runtime_put(c)
    /\ Goto(c, StopReturn(c))
    /\ UNCHANGED <<op, arg, ret, ci, mutex, streaming, mode, fmt_code, cur,
                   ctrl_val, rng, grabbed, rpm_status, asleep, hw, entry, out, try_fmt>>


\* ------------------------------------------------------- imx307_set_stream
Unlock(c) == mutex' = NoOwner

\* mutex_lock(&imx307->mutex): blocks while another context owns it.
Lock(c, from, to) ==
    /\ pc[c] = from
    /\ mutex = NoOwner
    /\ mutex' = c
    /\ Goto(c, to)
    /\ UNCHANGED <<op, arg, ret, ci, streaming, mode, fmt_code, cur, ctrl_val, rng,
                   grabbed, usage_count, held_refs, rpm_status, idle_pending, asleep, hw, log,
                   entry, out, try_fmt, budget>>

SsLock(c) == Lock(c, "ss_lock", "ss_check")

\* A set_stream without the early return for an unchanged state.
SsCheck_NoShortcut(c) ==
    /\ pc[c] = "ss_check"
    /\ Goto(c, IF arg[c].enable THEN "st_get" ELSE "sp_write")
    /\ UNCHANGED <<op, arg, ret, ci, mutex, streaming, mode, fmt_code, cur,
                   ctrl_val, rng, grabbed, usage_count, held_refs, rpm_status,
                   idle_pending, asleep, hw, log, entry, out, try_fmt, budget>>

\* Lines 1172-1187: nothing to do when the state already is the requested
\* one; otherwise start or stop.
SsCheck(c) ==
    /\ pc[c] = "ss_check"
    /\ IF streaming = arg[c].enable
       THEN /\ Unlock(c)
            /\ SetRet(c, 0)
            /\ Goto(c, "done")
       ELSE /\ Goto(c, IF arg[c].enable THEN "st_get" ELSE "sp_write")
            /\ UNCHANGED <<mutex, ret>>
    /\ UNCHANGED <<op, arg, ci, streaming, mode, fmt_code, cur, ctrl_val, rng,
                   grabbed, usage_count, held_refs, rpm_status, idle_pending, asleep, hw, log,
                   entry, out, try_fmt, budget>>

\* A set_stream that returns the error of start with the mutex still held.
SsStarted_KeepsLockOnError(c) ==
    /\ pc[c] = "ss_started"
    /\ streaming' = IF ret[c] # 0 THEN streaming ELSE arg[c].enable
    /\ mutex' = IF ret[c] # 0 THEN mutex ELSE NoOwner
    /\ Goto(c, "done")
    /\ UNCHANGED <<op, arg, ret, ci, mode, fmt_code, cur, ctrl_val, rng, grabbed,
                   usage_count, held_refs, rpm_status, idle_pending, asleep, hw, log, entry, out, try_fmt, budget>>

\* Lines 1182-1198 after imx307_start_streaming returned: an error leaves
\* through err_unlock, success stores the new state.
SsStarted(c) ==
    /\ pc[c] = "ss_started"
    /\ streaming' = IF ret[c] # 0 THEN streaming ELSE arg[c].enable
    /\ Unlock(c)
    /\ Goto(c, "done")
    /\ UNCHANGED <<op, arg, ret, ci, mode, fmt_code, cur, ctrl_val, rng, grabbed,
                   usage_count, held_refs, rpm_status, idle_pending, asleep, hw, log, entry, out, try_fmt, budget>>

\* Lines 1186-1193 after imx307_stop_streaming returned.
SsStopped(c) ==
    /\ pc[c] = "ss_stopped"
    /\ streaming' = arg[c].enable
    /\ Unlock(c)
    /\ SetRet(c, 0)
    /\ Goto(c, "done")
    /\ UNCHANGED <<op, arg, ci, mode, fmt_code, cur, ctrl_val, rng, grabbed,
                   usage_count, held_refs, rpm_status, idle_pending, asleep, hw, log, entry, out, try_fmt, budget>>

\* ------------------------------------------ imx307_suspend, imx307_resume
\* Line 1255: stop when streaming; the streaming flag is left as it is.
SuCheck(c) ==
    /\ pc[c] = "su_check"
    /\ Goto(c, IF streaming THEN "sp_write" ELSE "su_ret")
    /\ UNCHANGED <<op, arg, ret, ci, mutex, streaming, mode, fmt_code, cur,
                   ctrl_val, rng, grabbed, usage_count, held_refs, rpm_status, idle_pending,
                   asleep, hw, log, entry, out, try_fmt, budget>>

\* Line 1258: return 0; the system is now asleep.
SuRet(c) ==
    /\ pc[c] = "su_ret"
    /\ SetRet(c, 0)
    /\ asleep' = TRUE
    /\ Goto(c, "done")
    /\ UNCHANGED <<op, arg, ci, mutex, streaming, mode, fmt_code, cur, ctrl_val,
                   rng, grabbed, usage_count, held_refs, rpm_status, idle_pending, hw, log,
                   entry, out, try_fmt, budget>>

\* Lines 1268-1274: start again when the instance was streaming.
RsCheck(c) ==
    /\ pc[c] = "rs_check"
    /\ asleep' = FALSE
    /\ IF streaming
       THEN Goto(c, "st_get") /\ UNCHANGED ret
       ELSE Goto(c, "done") /\ SetRet(c, 0)
    /\ UNCHANGED <<op, arg, ci, mutex, streaming, mode, fmt_code, cur, ctrl_val,
                   rng, grabbed, usage_count, held_refs, rpm_status, idle_pending, hw, log,
                   entry, out, try_fmt, budget>>

\* Lines 1270-1274 after imx307_start_streaming returned: goto error on
\* failure.
RsStarted(c) ==
    /\ pc[c] = "rs_started"
    /\ Goto(c, IF ret[c] # 0 THEN "sp_write" ELSE "done")
    /\ UNCHANGED <<op, arg, ret, ci, mutex, streaming, mode, fmt_code, cur,
                   ctrl_val, rng, grabbed, usage_count, held_refs, rpm_status, idle_pending,
                   asleep, hw, log, entry, out, try_fmt, budget>>

\* Lines 1276-1280, error: after imx307_stop_streaming the flag is cleared
\* and the error of start is returned.
RsErr(c) ==
    /\ pc[c] = "rs_err"
    /\ streaming' = FALSE
    /\ Goto(c, "done")
    /\ UNCHANGED <<op, arg, ret, ci, mutex, mode, fmt_code, cur, ctrl_val, rng,
                   grabbed, usage_count, held_refs, rpm_status, idle_pending, asleep, hw, log,
                   entry, out, try_fmt, budget>>

\* ------------------------------------------------- control set (s_ctrl path)
ScLock(c) == Lock(c, "sc_lock", "sc_body")

\* VIDIOC_S_CTRL on control id with value v, handler lock (imx307->mutex)
\* held: a read-only control is refused, else set_ctrl runs and the lock is
\* released.
ScBody(c) ==
    /\ pc[c] = "sc_body"
    /\ \E F \in SUBSET (1..2) :
         LET S == IF arg[c].id \in ReadOnlyCtrl
                  THEN [CtlState EXCEPT !.r = EACCES]
                  ELSE v4l2_set_ctrl(CtlState, arg[c].id, arg[c].v, F)
         IN  /\ ApplyCtl(c, S)
             /\ SetRet(c, S.r)
    /\ Unlock(c)
    /\ Goto(c, "done")
    /\ UNCHANGED <<op, arg, ci, streaming, mode, fmt_code, grabbed, rpm_status,
                   idle_pending, asleep, entry, out, try_fmt, budget>>

\* ---------------------------------------------------------- format set
\* 0-based index of code in codes[], ARRAY_SIZE(codes) when absent.
CodeIndex(code) ==
    IF \E i \in 1..Len(codes) : codes[i] = code
    THEN (CHOOSE i \in 1..Len(codes) :
             codes[i] = code /\ \A j \in 1..(i - 1) : codes[j] # code) - 1
    ELSE Len(codes)

\* A resolution with the two flip bits exchanged.
imx307_get_format_code_SwappedFlips(code, hf, vf) ==
    LET i0 == IF CodeIndex(code) >= Len(codes) THEN 0 ELSE CodeIndex(code)
        i  == (i0 - (i0 % 4)) + (IF hf # 0 THEN 2 ELSE 0)
                              + (IF vf # 0 THEN 1 ELSE 0)
    IN  codes[i + 1]

\* imx307_get_format_code: the entry of codes[] for the bit-depth group of
\* code and the flips hf, vf (the ->val of the two flip controls).
imx307_get_format_code(code, hf, vf) ==
    LET i0 == IF CodeIndex(code) >= Len(codes) THEN 0 ELSE CodeIndex(code)
        i  == (i0 - (i0 % 4)) + (IF vf # 0 THEN 2 ELSE 0)
                              + (IF hf # 0 THEN 1 ELSE 0)
    IN  codes[i + 1]

\* v4l2_find_nearest_size over supported_modes: the entry with the least
\* |width - w| + |height - h|; an entry replaces the best so far unless its
\* error is greater, and an exact match ends the search.  min_error starts
\* at U32_MAX, which no error of a request of the model reaches: it is
\* written NoError here.
NoError == 0 - 1
SizeError(i, w, h) ==
    Abs(supported_modes[i].width - w) + Abs(supported_modes[i].height - h)

RECURSIVE NearestFrom(_, _, _, _, _)
NearestFrom(i, best, min_error, w, h) ==
    IF i > NumModes THEN best
    ELSE IF min_error # NoError /\ SizeError(i, w, h) > min_error
    THEN NearestFrom(i + 1, best, min_error, w, h)
    ELSE IF SizeError(i, w, h) = 0 THEN i
    ELSE NearestFrom(i + 1, i, SizeError(i, w, h), w, h)

\* A search that takes an exact match and else the first entry.
v4l2_find_nearest_size_ExactOnly(w, h) ==
    IF \E i \in 1..NumModes : SizeError(i, w, h) = 0
    THEN CHOOSE i \in 1..NumModes : SizeError(i, w, h) = 0
    ELSE 1

v4l2_find_nearest_size(w, h) == NearestFrom(1, 1, NoError, w, h)

\* A mode change that takes vts_def itself as the maximum of exposure.
ApplyModeChange_NoMargin(S, m, F) ==
    LET md == supported_modes[m]
        Sa == v4l2_ctrl_modify_range([S EXCEPT !.mode = m], "vblank",
                  imx307_VBLANK_MIN, imx307_VTS_MAX - md.height,
                  md.vts_def - md.height, F)
        Sb == v4l2_set_ctrl(Sa, "vblank", md.vts_def - md.height, F)
        exposure_max == md.vts_def
        exposure_def == Min(exposure_max, imx307_EXPOSURE_DEFAULT)
        Sc == v4l2_ctrl_modify_range(Sb, "exposure", Sb.rng["exposure"].min,
                  exposure_max, exposure_def, F)
        hblank == imx307_PPL_DEFAULT - md.width
    IN  v4l2_ctrl_modify_range(Sc, "hblank", hblank, hblank, hblank, F)

\* A mode change that stores the new mode after the control updates.
ApplyModeChange_ModeLast(S, m, F) ==
    LET md == supported_modes[m]
        Sa == v4l2_ctrl_modify_range(S, "vblank",
                  imx307_VBLANK_MIN, imx307_VTS_MAX - md.height,
                  md.vts_def - md.height, F)
        Sb == v4l2_set_ctrl(Sa, "vblank", md.vts_def - md.height, F)
        exposure_max == md.vts_def - 4
        exposure_def == Min(exposure_max, imx307_EXPOSURE_DEFAULT)
        Sc == v4l2_ctrl_modify_range(Sb, "exposure", Sb.rng["exposure"].min,
                  exposure_max, exposure_def, F)
        hblank == imx307_PPL_DEFAULT - md.width
        Sd == v4l2_ctrl_modify_range(Sc, "hblank", hblank, hblank, hblank, F)
    IN  [Sd EXCEPT !.mode = m]

\* Lines 980-1010: the mode change of an ACTIVE set_fmt on the image pad.
\* The return values of the four control calls are ignored.
ApplyModeChange(S, m, F) ==
    LET md == supported_modes[m]
        Sa == v4l2_ctrl_modify_range([S EXCEPT !.mode = m], "vblank",
                  imx307_VBLANK_MIN, imx307_VTS_MAX - md.height,
                  md.vts_def - md.height, F)
        Sb == v4l2_set_ctrl(Sa, "vblank", md.vts_def - md.height, F)
        exposure_max == md.vts_def - 4
        exposure_def == Min(exposure_max, imx307_EXPOSURE_DEFAULT)
        Sc == v4l2_ctrl_modify_range(Sb, "exposure", Sb.rng["exposure"].min,
                  exposure_max, exposure_def, F)
        hblank == imx307_PPL_DEFAULT - md.width
    IN  v4l2_ctrl_modify_range(Sc, "hblank", hblank, hblank, hblank, F)

\* The entry of imx307_get_format_code from context c, line 657: ok records
\* whether lockdep_assert_held(&imx307->mutex) finds the mutex held by c.
lockdep_assert_held(c, code) ==
    Ev("get_format_code", code, 0, mutex = c, Held)

\* imx307_update_image_pad_format with the resolved code: what a format
\* request on the image pad hands back for mode m.
ImagePadFormat(code, m) ==
    [code |-> code, width |-> supported_modes[m].width,
     height |-> supported_modes[m].height]

\* imx307_update_metadata_pad_format.
MetadataPadFormat ==
    [code |-> "SENSOR_DATA", width |-> imx307_EMBEDDED_LINE_WIDTH,
     height |-> imx307_NUM_EMBEDDED_LINES]

\* A set_fmt that goes on to the lock without looking at the pad.
SfCheck_NoPadCheck(c) ==
    /\ pc[c] = "sf_check"
    /\ Goto(c, "sf_lock")
    /\ UNCHANGED <<op, arg, ret, ci, mutex, streaming, mode, fmt_code, cur,
                   ctrl_val, rng, grabbed, usage_count, held_refs, rpm_status,
                   idle_pending, asleep, hw, log, entry, out, try_fmt, budget>>

\* Lines 953-954: an unknown pad is refused before the lock is taken.
SfCheck(c) ==
    /\ pc[c] = "sf_check"
    /\ IF arg[c].pad >= NUM_PADS
       THEN SetRet(c, EINVAL) /\ Goto(c, "done")
       ELSE Goto(c, "sf_lock") /\ UNCHANGED ret
    /\ UNCHANGED <<op, arg, ci, mutex, streaming, mode, fmt_code, cur, ctrl_val,
                   rng, grabbed, usage_count, held_refs, rpm_status, idle_pending, asleep, hw,
                   log, entry, out, try_fmt, budget>>

SfLock(c) == Lock(c, "sf_lock", "sf_body")

\* The format a set_fmt stores and hands back: on the image pad the resolved
\* code and the size of the nearest mode; on the metadata pad the fixed
\* format for ACTIVE, and for TRY the request as it came.
SetFormatResult(c) ==
    IF arg[c].pad = IMAGE_PAD
    THEN ImagePadFormat(
             imx307_get_format_code(arg[c].code, ctrl_val["hflip"],
                                    ctrl_val["vflip"]),
             v4l2_find_nearest_size(arg[c].w, arg[c].h))
    ELSE IF arg[c].which = "TRY"
    THEN [code |-> arg[c].code, width |-> arg[c].w, height |-> arg[c].h]
    ELSE MetadataPadFormat

\* A set_fmt that takes every request as ACTIVE.
SfBody_IgnoresWhich(c) ==
    /\ pc[c] = "sf_body"
    /\ LET code == imx307_get_format_code(arg[c].code, ctrl_val["hflip"],
                                          ctrl_val["vflip"])
           m    == v4l2_find_nearest_size(arg[c].w, arg[c].h)
       IN  IF arg[c].pad = IMAGE_PAD /\ (mode # m \/ fmt_code # code)
           THEN \E F \in SUBSET (1..5) :
                  LET S0 == [CtlState EXCEPT !.evs =
                                << lockdep_assert_held(c, arg[c].code) >>]
                      S  == ApplyModeChange(S0, m, F)
                  IN  /\ fmt_code' = code
                      /\ mode' = m
                      /\ ApplyCtl(c, S)
           ELSE /\ IF arg[c].pad = IMAGE_PAD
                   THEN Emit(c, << lockdep_assert_held(c, arg[c].code) >>)
                   ELSE UNCHANGED log
                /\ UNCHANGED <<fmt_code, mode, cur, ctrl_val, rng, hw,
                               usage_count, held_refs>>
    /\ out' = [out EXCEPT ![c] = SetFormatResult(c)]
    /\ try_fmt' = IF arg[c].which = "TRY"
                  THEN [try_fmt EXCEPT ![arg[c].pad] = SetFormatResult(c)]
                  ELSE try_fmt
    /\ Unlock(c)
    /\ SetRet(c, 0)
    /\ Goto(c, "done")
    /\ UNCHANGED <<op, arg, ci, streaming, grabbed, rpm_status, idle_pending,
                   asleep, entry, budget>>

\* Lines 958-1025 of imx307_set_pad_format.  A TRY request stores the
\* format in the try format of the file handle and nothing else; an ACTIVE
\* request on the image pad whose mode or code differs from the active one
\* stores both and recomputes the controls.
SfBody(c) ==
    /\ pc[c] = "sf_body"
    /\ LET code == imx307_get_format_code(arg[c].code, ctrl_val["hflip"],
                                          ctrl_val["vflip"])
           m    == v4l2_find_nearest_size(arg[c].w, arg[c].h)
       IN  IF /\ arg[c].pad = IMAGE_PAD
              /\ arg[c].which # "TRY"
              /\ (mode # m \/ fmt_code # code)
           THEN \E F \in SUBSET (1..5) :
                  LET S0 == [CtlState EXCEPT !.evs =
                                << lockdep_assert_held(c, arg[c].code) >>]
                      S  == ApplyModeChange(S0, m, F)
                  IN  /\ fmt_code' = code
                      /\ mode' = m
                      /\ ApplyCtl(c, S)
           ELSE /\ IF arg[c].pad = IMAGE_PAD
                   THEN Emit(c, << lockdep_assert_held(c, arg[c].code) >>)
                   ELSE UNCHANGED log
                /\ UNCHANGED <<fmt_code, mode, cur, ctrl_val, rng, hw,
                               usage_count, held_refs>>
    /\ out' = [out EXCEPT ![c] = SetFormatResult(c)]
    /\ try_fmt' = IF arg[c].which = "TRY"
                  THEN [try_fmt EXCEPT ![arg[c].pad] = SetFormatResult(c)]
                  ELSE try_fmt
    /\ Unlock(c)
    /\ SetRet(c, 0)
    /\ Goto(c, "done")
    /\ UNCHANGED <<op, arg, ci, streaming, grabbed, rpm_status, idle_pending,
                   asleep, entry, budget>>

\* ------------------------------------------------------------ format get
GfLock(c) == Lock(c, "gf_lock", "gf_body")

\* What get_fmt leaves in the try format of pad p: the code is resolved
\* again for the current flips (lines 907-913).
TryFormatRead(p) ==
    [try_fmt[p] EXCEPT !.code =
        IF p = IMAGE_PAD
        THEN imx307_get_format_code(try_fmt[p].code, ctrl_val["hflip"],
                                    ctrl_val["vflip"])
        ELSE MetadataPadFormat.code]

\* __imx307_get_pad_format (lines 900-927), between the mutex_lock and
\* mutex_unlock of imx307_get_pad_format (lines 936-938).
GfBody(c) ==
    /\ pc[c] = "gf_body"
    /\ IF arg[c].pad >= NUM_PADS
       THEN SetRet(c, EINVAL) /\ UNCHANGED <<out, log, try_fmt>>
       ELSE IF arg[c].which = "TRY"
       THEN /\ SetRet(c, 0)
            /\ IF arg[c].pad = IMAGE_PAD
               THEN Emit(c, << lockdep_assert_held(c, try_fmt[arg[c].pad].code) >>)
               ELSE UNCHANGED log
            /\ try_fmt' = [try_fmt EXCEPT ![arg[c].pad] = TryFormatRead(arg[c].pad)]
            /\ out' = [out EXCEPT ![c] = TryFormatRead(arg[c].pad)]
       ELSE /\ SetRet(c, 0)
            /\ IF arg[c].pad = IMAGE_PAD
               THEN Emit(c, << lockdep_assert_held(c, fmt_code) >>)
               ELSE UNCHANGED log
            /\ out' = [out EXCEPT ![c] =
                         IF arg[c].pad = IMAGE_PAD
                         THEN ImagePadFormat(
                                  imx307_get_format_code(fmt_code,
                                      ctrl_val["hflip"], ctrl_val["vflip"]),
                                  mode)
                         ELSE MetadataPadFormat]
            /\ UNCHANGED try_fmt
    /\ Unlock(c)
    /\ Goto(c, "done")
    /\ UNCHANGED <<op, arg, ci, streaming, mode, fmt_code, cur, ctrl_val, rng,
                   grabbed, usage_count, held_refs, rpm_status, idle_pending,
                   asleep, hw, entry, budget>>

\* ------------------------------------------------------------------ open
OpLock(c) == Lock(c, "op_lock", "op_body")

\* imx307_open (lines 689-723): the try formats of the handle are set to
\* the default of each pad.
OpenFormats(hf, vf) ==
    [p \in 0..(NUM_PADS - 1) |->
        IF p = IMAGE_PAD
        THEN ImagePadFormat(imx307_get_format_code("SRGGB10", hf, vf), 1)
        ELSE MetadataPadFormat]

OpBody(c) ==
    /\ pc[c] = "op_body"
    /\ Emit(c, << lockdep_assert_held(c, "SRGGB10") >>)
    /\ try_fmt' = OpenFormats(ctrl_val["hflip"], ctrl_val["vflip"])
    /\ Unlock(c)
    /\ SetRet(c, 0)
    /\ Goto(c, "done")
    /\ UNCHANGED <<op, arg, ci, streaming, mode, fmt_code, cur, ctrl_val, rng,
                   grabbed, usage_count, held_refs, rpm_status, idle_pending,
                   asleep, hw, entry, out, budget>>

\* ------------------------------------------------------------ enumeration
\* imx307_enum_mbus_code (lines 814-837); arg.v is code->index.
EmBody(c) ==
    /\ pc[c] = "em_body"
    /\ IF arg[c].pad >= NUM_PADS
       THEN SetRet(c, EINVAL) /\ UNCHANGED <<out, log>>
       ELSE IF arg[c].pad = IMAGE_PAD
       THEN IF arg[c].v >= Len(codes) \div 4
            THEN SetRet(c, EINVAL) /\ UNCHANGED <<out, log>>
            ELSE /\ SetRet(c, 0)
                 /\ Emit(c, << lockdep_assert_held(c, codes[arg[c].v * 4 + 1]) >>)
                 /\ out' = [out EXCEPT ![c].code =
                              imx307_get_format_code(codes[arg[c].v * 4 + 1],
                                  ctrl_val["hflip"], ctrl_val["vflip"])]
       ELSE IF arg[c].v > 0
            THEN SetRet(c, EINVAL) /\ UNCHANGED <<out, log>>
            ELSE /\ SetRet(c, 0)
                 /\ out' = [out EXCEPT ![c].code = MetadataPadFormat.code]
                 /\ UNCHANGED log
    /\ Goto(c, "done")
    /\ UNCHANGED <<op, arg, ci, mutex, streaming, mode, fmt_code, cur, ctrl_val,
                   rng, grabbed, usage_count, held_refs, rpm_status,
                   idle_pending, asleep, hw, entry, try_fmt, budget>>

\* imx307_enum_frame_size (lines 839-870); arg.v is fse->index.
EfBody(c) ==
    /\ pc[c] = "ef_body"
    /\ IF arg[c].pad >= NUM_PADS
       THEN SetRet(c, EINVAL) /\ UNCHANGED <<out, log>>
       ELSE IF arg[c].pad = IMAGE_PAD
       THEN IF arg[c].v >= NumModes
            THEN SetRet(c, EINVAL) /\ UNCHANGED <<out, log>>
            ELSE /\ Emit(c, << lockdep_assert_held(c, arg[c].code) >>)
                 /\ IF arg[c].code # imx307_get_format_code(arg[c].code,
                                         ctrl_val["hflip"], ctrl_val["vflip"])
                    THEN SetRet(c, EINVAL) /\ UNCHANGED out
                    ELSE /\ SetRet(c, 0)
                         /\ out' = [out EXCEPT ![c] =
                                      ImagePadFormat(arg[c].code, arg[c].v + 1)]
       ELSE IF arg[c].code # MetadataPadFormat.code \/ arg[c].v > 0
            THEN SetRet(c, EINVAL) /\ UNCHANGED <<out, log>>
            ELSE /\ SetRet(c, 0)
                 /\ out' = [out EXCEPT ![c] = MetadataPadFormat]
                 /\ UNCHANGED log
    /\ Goto(c, "done")
    /\ UNCHANGED <<op, arg, ci, mutex, streaming, mode, fmt_code, cur, ctrl_val,
                   rng, grabbed, usage_count, held_refs, rpm_status,
                   idle_pending, asleep, hw, entry, try_fmt, budget>>

\* ------------------------------------------------------------ entry, exit
\* Whether context c may enter a handler.  With serial = TRUE the system-sleep
\* callbacks run only while no request is in flight and no request is served
\* between suspend and resume (tasks are frozen); with serial = FALSE the two
\* contexts are independent.
MayEnter(c, serial) ==
    \/ ~serial
    \/ c = "user" /\ pc["pm"] = "idle" /\ ~asleep
    \/ c = "pm" /\ pc["user"] = "idle"

CallSetStream(serial) ==
    /\ MayEnter("user", serial)
    /\ \E en \in BOOLEAN :
         Call("user", "set_stream", [NoArg EXCEPT !.enable = en], "ss_lock")

CallSetCtrl(serial, inputs) ==
    /\ MayEnter("user", serial)
    /\ \E in \in inputs :
         Call("user", "set_ctrl", [NoArg EXCEPT !.id = in[1], !.v = in[2]],
              "sc_lock")

CallSetFormat(serial, inputs) ==
    /\ MayEnter("user", serial)
    /\ \E in \in inputs :
         LET a == [NoArg EXCEPT !.pad = in[1], !.code = in[2],
                                !.w = in[3], !.h = in[4]]
         IN  Call("user", "set_fmt", a, "sf_check")

CallSuspend(serial) ==
    /\ MayEnter("pm", serial)
    /\ ~asleep
    /\ Call("pm", "suspend", NoArg, "su_check")

CallResume(serial) ==
    /\ MayEnter("pm", serial)
    /\ asleep
    /\ Call("pm", "resume", NoArg, "rs_check")

CallSetFormatTry(inputs) ==
    /\ MayEnter("user", TRUE)
    /\ \E in \in inputs :
         LET a == [NoArg EXCEPT !.pad = in[1], !.code = in[2],
                                !.w = in[3], !.h = in[4], !.which = "TRY"]
         IN  Call("user", "set_fmt", a, "sf_check")

CallGetFormatTry(pads) ==
    /\ MayEnter("user", TRUE)
    /\ \E p \in pads :
         Call("user", "get_fmt", [NoArg EXCEPT !.pad = p, !.which = "TRY"],
              "gf_lock")

CallOpen ==
    /\ MayEnter("user", TRUE)
    /\ Call("user", "open", NoArg, "op_lock")

CallGetFormat(pads) ==
    /\ MayEnter("user", TRUE)
    /\ \E p \in pads :
         Call("user", "get_fmt", [NoArg EXCEPT !.pad = p], "gf_lock")

\* inputs: <<pad, index>>
CallEnumMbusCode(inputs) ==
    /\ MayEnter("user", TRUE)
    /\ \E in \in inputs :
         Call("user", "enum_mbus_code",
              [NoArg EXCEPT !.pad = in[1], !.v = in[2]], "em_body")

\* inputs: <<pad, index, code>>
CallEnumFrameSize(inputs) ==
    /\ MayEnter("user", TRUE)
    /\ \E in \in inputs :
         Call("user", "enum_frame_size",
              [NoArg EXCEPT !.pad = in[1], !.v = in[2], !.code = in[3]],
              "ef_body")

\* The handler returns to its caller.
Return(c) ==
    /\ pc[c] = "done"
    /\ pc' = [pc EXCEPT ![c] = "idle"]
    /\ op' = [op EXCEPT ![c] = "none"]
    /\ arg' = [arg EXCEPT ![c] = NoArg]
    /\ ret' = [ret EXCEPT ![c] = 0]
    /\ log' = [log EXCEPT ![c] = <<>>]
    /\ entry' = [entry EXCEPT ![c] = InitSnapshot]
    /\ out' = [out EXCEPT ![c] = NoFormat]
    /\ UNCHANGED try_fmt
    /\ UNCHANGED <<ci, mutex, streaming, mode, fmt_code, cur, ctrl_val, rng,
                   grabbed, usage_count, held_refs, rpm_status, idle_pending, asleep, hw,
                   budget>>


\* ------------------------------------------------------------ imx307_probe
\* The instance as devm_kzalloc leaves it: no mode, no format, no control.
NoMode == 0
NoCtrlRng == [id \in Ctrl |-> Range(0, 0, 0)]
NoCtrlCur == [id \in Ctrl |-> 0]

\* Errors the clock, regulator, control and media frameworks hand to probe.
FrameworkErrors == {EIO, ENOMEM}

\* Probe leaves with ret = r and the instance is not bound.
ProbeFails(c, r) == SetRet(c, r) /\ Goto(c, "gone")

\* Lines 1523-1525: imx307_check_hwcfg; any error becomes -EINVAL.
PrHwcfg(c) ==
    /\ pc[c] = "pr_hwcfg"
    /\ \E ok \in BOOLEAN :
         /\ Emit(c, << Ev("check_hwcfg", "endpoint", 0, ok, Held) >>)
         /\ IF ok THEN Goto(c, "pr_clk") /\ UNCHANGED ret
                  ELSE ProbeFails(c, EINVAL)
    /\ UNCHANGED <<op, arg, ci, mutex, streaming, mode, fmt_code, cur, ctrl_val,
                   rng, grabbed, usage_count, held_refs, rpm_status,
                   idle_pending, asleep, hw, entry, out, try_fmt, budget>>

\* Lines 1527-1539: devm_clk_get, then the rate must be imx307_XCLK_FREQ.
PrClk(c) ==
    /\ pc[c] = "pr_clk"
    /\ \/ \E e \in FrameworkErrors :
            /\ Emit(c, << Ev("clk_get", "xclk", e, FALSE, Held) >>)
            /\ ProbeFails(c, e)
       \/ \E match \in BOOLEAN :
            /\ Emit(c, << Ev("clk_get", "xclk", 0, TRUE, Held),
                          Ev("clk_rate", "xclk", 0, match, Held) >>)
            /\ IF match THEN Goto(c, "pr_reg") /\ UNCHANGED ret
                        ELSE ProbeFails(c, EINVAL)
    /\ UNCHANGED <<op, arg, ci, mutex, streaming, mode, fmt_code, cur, ctrl_val,
                   rng, grabbed, usage_count, held_refs, rpm_status,
                   idle_pending, asleep, hw, entry, out, try_fmt, budget>>

\* Lines 1541-1549: imx307_get_regulators and the optional reset line.
PrReg(c) ==
    /\ pc[c] = "pr_reg"
    /\ \E e \in FrameworkErrors \cup {0} :
         /\ Emit(c, << Ev("get_regulators", "supplies", e, e = 0, Held) >>)
         /\ IF e = 0 THEN Goto(c, "pr_power") /\ UNCHANGED ret
                     ELSE ProbeFails(c, e)
    /\ UNCHANGED <<op, arg, ci, mutex, streaming, mode, fmt_code, cur, ctrl_val,
                   rng, grabbed, usage_count, held_refs, rpm_status,
                   idle_pending, asleep, hw, entry, out, try_fmt, budget>>

\* Lines 1555-1557: imx307_power_on, called directly.
PrPower(c) ==
    /\ pc[c] = "pr_power"
    /\ \E e \in PowerOnResults :
         /\ Emit(c, << Ev("power_on", "power", e, e = 0, Held) >>)
         /\ IF e = 0
            THEN /\ rpm_status' = "active"
                 /\ Goto(c, "pr_ident")
                 /\ UNCHANGED ret
            ELSE /\ ProbeFails(c, e)
                 /\ UNCHANGED rpm_status
    /\ UNCHANGED <<op, arg, ci, mutex, streaming, mode, fmt_code, cur, ctrl_val,
                   rng, grabbed, usage_count, held_refs, idle_pending, asleep,
                   hw, entry, out, try_fmt, budget>>

\* An identification that accepts whatever chip id it reads.
PrIdent_AnyChip(c) ==
    /\ pc[c] = "pr_ident"
    /\ \E read_ok, match \in BOOLEAN :
         /\ Emit(c, << Ev("read", "CHIP_ID", 0, read_ok, Held) >>
                    \o (IF read_ok
                        THEN << Ev("chip_id", "CHIP_ID", 0, match, Held) >>
                        ELSE << >>))
         /\ IF read_ok
            THEN /\ mode' = 1
                 /\ Goto(c, "pr_lp11")
                 /\ UNCHANGED ret
            ELSE /\ SetRet(c, EIO)
                 /\ Goto(c, "pr_off")
                 /\ UNCHANGED mode
    /\ UNCHANGED <<op, arg, ci, mutex, streaming, fmt_code, cur, ctrl_val, rng,
                   grabbed, usage_count, held_refs, rpm_status, idle_pending,
                   asleep, hw, entry, out, try_fmt, budget>>

\* Lines 1559-1564: imx307_identify_module (lines 1296-1318): the read of
\* the chip id fails, or the id differs (-EIO), or it is the expected one;
\* then the default mode is stored.
PrIdent(c) ==
    /\ pc[c] = "pr_ident"
    /\ \E read_ok, match \in BOOLEAN :
         /\ Emit(c, << Ev("read", "CHIP_ID", 0, read_ok, Held) >>
                    \o (IF read_ok
                        THEN << Ev("chip_id", "CHIP_ID", 0, match, Held) >>
                        ELSE << >>))
         /\ IF read_ok /\ match
            THEN /\ mode' = 1
                 /\ Goto(c, "pr_lp11")
                 /\ UNCHANGED ret
            ELSE /\ SetRet(c, EIO)
                 /\ Goto(c, "pr_off")
                 /\ UNCHANGED mode
    /\ UNCHANGED <<op, arg, ci, mutex, streaming, fmt_code, cur, ctrl_val, rng,
                   grabbed, usage_count, held_refs, rpm_status, idle_pending,
                   asleep, hw, entry, out, try_fmt, budget>>

\* Lines 1566-1582: streaming, then standby, to bring the link to LP-11;
\* the first failing write ends probe.
PrLp11(c) ==
    /\ pc[c] = "pr_lp11"
    /\ \E F \in SUBSET (1..2) :
         LET S1 == imx307_write_reg(CtlState, "MODE_SELECT",
                                    imx307_MODE_STREAMING, F)
             S2 == IF S1.r # 0 THEN S1
                   ELSE imx307_write_reg(S1, "MODE_SELECT",
                                         imx307_MODE_STANDBY, F)
         IN  /\ hw' = S2.hw
             /\ Emit(c, S2.evs)
             /\ IF S2.r = 0
                THEN Goto(c, "pr_ctrls") /\ UNCHANGED ret
                ELSE SetRet(c, S2.r) /\ Goto(c, "pr_off")
    /\ UNCHANGED <<op, arg, ci, mutex, streaming, mode, fmt_code, cur, ctrl_val,
                   rng, grabbed, usage_count, held_refs, rpm_status,
                   idle_pending, asleep, entry, out, try_fmt, budget>>

\* Lines 1584-1586: imx307_init_controls; on an error it has freed the
\* handler and destroyed the mutex itself (lines 1450-1454).
PrCtrls(c) ==
    /\ pc[c] = "pr_ctrls"
    /\ \E e \in FrameworkErrors \cup {0} :
         IF e = 0
         THEN /\ cur' = InitCur
              /\ rng' = InitRng
              /\ Emit(c, << Ev("mutex_init", "mutex", 0, TRUE, Held),
                            Ev("init_controls", "ctrl_handler", 0, TRUE, Held) >>)
              /\ Goto(c, "pr_pads")
              /\ UNCHANGED ret
         ELSE /\ Emit(c, << Ev("mutex_init", "mutex", 0, TRUE, Held),
                            Ev("init_controls", "ctrl_handler", e, FALSE, Held),
                            Ev("handler_free", "ctrl_handler", 0, TRUE, Held),
                            Ev("mutex_destroy", "mutex", 0, TRUE, Held) >>)
              /\ SetRet(c, e)
              /\ Goto(c, "pr_off")
              /\ UNCHANGED <<cur, rng>>
    /\ UNCHANGED <<op, arg, ci, mutex, streaming, mode, fmt_code, ctrl_val,
                   grabbed, usage_count, held_refs, rpm_status, idle_pending,
                   asleep, hw, entry, out, try_fmt, budget>>

\* Lines 1596-1603: imx307_set_default_format and media_entity_pads_init.
PrPads(c) ==
    /\ pc[c] = "pr_pads"
    /\ fmt_code' = "SRGGB10"
    /\ \E e \in FrameworkErrors \cup {0} :
         /\ Emit(c, << Ev("pads_init", "entity", e, e = 0, Held) >>)
         /\ IF e = 0 THEN Goto(c, "pr_register") /\ UNCHANGED ret
                     ELSE SetRet(c, e) /\ Goto(c, "pr_free")
    /\ UNCHANGED <<op, arg, ci, mutex, streaming, mode, cur, ctrl_val, rng,
                   grabbed, usage_count, held_refs, rpm_status, idle_pending,
                   asleep, hw, entry, out, try_fmt, budget>>

\* Lines 1605-1609 and 1618-1619: v4l2_async_register_subdev_sensor_common;
\* on an error media_entity_cleanup.
PrRegister(c) ==
    /\ pc[c] = "pr_register"
    /\ \E e \in FrameworkErrors \cup {0} :
         IF e = 0
         THEN /\ Emit(c, << Ev("register", "subdev", 0, TRUE, Held) >>)
              /\ Goto(c, "pr_rpm")
              /\ UNCHANGED ret
         ELSE /\ Emit(c, << Ev("register", "subdev", e, FALSE, Held),
                            Ev("entity_cleanup", "entity", 0, TRUE, Held) >>)
              /\ SetRet(c, e)
              /\ Goto(c, "pr_free")
    /\ UNCHANGED <<op, arg, ci, mutex, streaming, mode, fmt_code, cur, ctrl_val,
                   rng, grabbed, usage_count, held_refs, rpm_status,
                   idle_pending, asleep, hw, entry, out, try_fmt, budget>>

\* Lines 1611-1616: runtime PM is enabled with the device active, and
\* pm_runtime_idle, finding no user, powers the sensor off; probe returns 0.
PrRpm(c) ==
    /\ pc[c] = "pr_rpm"
    /\ rpm_status' = "suspended"
    /\ hw' = [r \in Reg |-> Unset]
    /\ Emit(c, << Ev("rpm_enable", "power", 0, TRUE, Held),
                  Ev("power_off", "power", 0, TRUE, Held) >>)
    /\ SetRet(c, 0)
    /\ Goto(c, "done")
    /\ UNCHANGED <<op, arg, ci, mutex, streaming, mode, fmt_code, cur, ctrl_val,
                   rng, grabbed, usage_count, held_refs, idle_pending, asleep,
                   entry, out, try_fmt, budget>>

\* imx307_free_controls (lines 1457-1461): the handler is freed and the
\* mutex destroyed.
imx307_free_controls(c) ==
    /\ cur' = NoCtrlCur
    /\ rng' = NoCtrlRng
    /\ Emit(c, << Ev("handler_free", "ctrl_handler", 0, TRUE, Held),
                  Ev("mutex_destroy", "mutex", 0, TRUE, Held) >>)

\* Lines 1621-1622, error_handler_free.
PrFree(c) ==
    /\ pc[c] = "pr_free"
    /\ imx307_free_controls(c)
    /\ Goto(c, "pr_off")
    /\ UNCHANGED <<op, arg, ret, ci, mutex, streaming, mode, fmt_code, ctrl_val,
                   grabbed, usage_count, held_refs, rpm_status, idle_pending,
                   asleep, hw, entry, out, try_fmt, budget>>

\* Lines 1624-1627, error_power_off: imx307_power_off, return ret.
PrOff(c) ==
    /\ pc[c] = "pr_off"
    /\ rpm_status' = "suspended"
    /\ hw' = [r \in Reg |-> Unset]
    /\ Emit(c, << Ev("power_off", "power", 0, TRUE, Held) >>)
    /\ Goto(c, "gone")
    /\ UNCHANGED <<op, arg, ret, ci, mutex, streaming, mode, fmt_code, cur,
                   ctrl_val, rng, grabbed, usage_count, held_refs, idle_pending,
                   asleep, entry, out, try_fmt, budget>>

ProbeStep(c) ==
    \/ PrHwcfg(c) \/ PrClk(c) \/ PrReg(c) \/ PrPower(c) \/ PrIdent(c)
    \/ PrLp11(c) \/ PrCtrls(c) \/ PrPads(c) \/ PrRegister(c) \/ PrRpm(c)
    \/ PrFree(c) \/ PrOff(c)

\* ----------------------------------------------------------- imx307_remove
CallRemove ==
    /\ MayEnter("user", TRUE)
    /\ Call("user", "remove", NoArg, "rm_unreg")

\* Lines 1635-1636: v4l2_async_unregister_subdev, media_entity_cleanup.
RmUnreg(c) ==
    /\ pc[c] = "rm_unreg"
    /\ Emit(c, << Ev("unregister", "subdev", 0, TRUE, Held),
                  Ev("entity_cleanup", "entity", 0, TRUE, Held) >>)
    /\ Goto(c, "rm_free")
    /\ UNCHANGED <<op, arg, ret, ci, mutex, streaming, mode, fmt_code, cur,
                   ctrl_val, rng, grabbed, usage_count, held_refs, rpm_status,
                   idle_pending, asleep, hw, entry, out, try_fmt, budget>>

\* Line 1637: imx307_free_controls.
RmFree(c) ==
    /\ pc[c] = "rm_free"
    /\ imx307_free_controls(c)
    /\ Goto(c, "rm_pm")
    /\ UNCHANGED <<op, arg, ret, ci, mutex, streaming, mode, fmt_code, ctrl_val,
                   grabbed, usage_count, held_refs, rpm_status, idle_pending,
                   asleep, hw, entry, out, try_fmt, budget>>

\* Lines 1639-1644: runtime PM is disabled, the sensor is powered off unless
\* it is runtime-suspended, the status is set to suspended; remove returns 0.
\* The usage count and the streaming flag are left as they are.
RmPm(c) ==
    /\ pc[c] = "rm_pm"
    /\ idle_pending' = FALSE
    /\ rpm_status' = "suspended"
    /\ IF rpm_status # "suspended"
       THEN /\ hw' = [r \in Reg |-> Unset]
            /\ Emit(c, << Ev("rpm_disable", "power", 0, TRUE, Held),
                          Ev("power_off", "power", 0, TRUE, Held) >>)
       ELSE /\ Emit(c, << Ev("rpm_disable", "power", 0, TRUE, Held) >>)
            /\ UNCHANGED hw
    /\ SetRet(c, 0)
    /\ Goto(c, "gone")
    /\ UNCHANGED <<op, arg, ci, mutex, streaming, mode, fmt_code, cur, ctrl_val,
                   rng, grabbed, usage_count, held_refs, asleep, entry, out, try_fmt,
                   budget>>

RemoveStep(c) == RmUnreg(c) \/ RmFree(c) \/ RmPm(c)


\* ------------------------------------------------------- specifications
\* After imx307_probe: mode 0 and the default format are active, nothing
\* streams, runtime PM is enabled and pm_runtime_idle has powered the sensor
\* off.
Init ==
    /\ pc = [c \in Ctx |-> "idle"]
    /\ op = [c \in Ctx |-> "none"]
    /\ arg = [c \in Ctx |-> NoArg]
    /\ ret = [c \in Ctx |-> 0]
    /\ ci = [c \in Ctx |-> 1]
    /\ mutex = NoOwner
    /\ streaming = FALSE
    /\ mode = 1
    /\ fmt_code = "SRGGB10"
    /\ cur = InitCur
    /\ ctrl_val = [f \in Flips |-> 0]
    /\ rng = InitRng
    /\ grabbed = [f \in Flips |-> FALSE]
    /\ usage_count = 0
    /\ held_refs = 0
    /\ rpm_status = "suspended"
    /\ idle_pending = FALSE
    /\ asleep = FALSE
    /\ hw = [r \in Reg |-> Unset]
    /\ log = [c \in Ctx |-> <<>>]
    /\ entry = [c \in Ctx |-> InitSnapshot]
    /\ out = [c \in Ctx |-> NoFormat]
    /\ try_fmt = OpenFormats(0, 0)
    /\ budget = Unlimited

\* The requests the user context makes.
CtrlInputs == { <<"hflip", 1>>, <<"hflip", 0>>, <<"exposure", 3000>> }

FormatInputs == { <<0, "SRGGB10", 3280, 2464>>, <<0, "SRGGB8", 640, 480>>,
                  <<1, "none", 0, 0>>, <<2, "none", 0, 0>> }

\* The steps a context takes inside a handler.
Step(c) ==
    \/ StGetSync(c) \/ StRegs(c) \/ StFmt(c) \/ StSetup(c) \/ StOn(c)
    \/ StGrab(c) \/ StErr(c)
    \/ SpWrite(c) \/ SpGrab(c) \/ SpPut(c)
    \/ Return(c)

UserStep ==
    \/ SsLock("user") \/ SsCheck("user") \/ SsStarted("user") \/ SsStopped("user")
    \/ ScLock("user") \/ ScBody("user")
    \/ SfCheck("user") \/ SfLock("user") \/ SfBody("user")

PmStep ==
    \/ SuCheck("pm") \/ SuRet("pm")
    \/ RsCheck("pm") \/ RsStarted("pm") \/ RsErr("pm")

Calls(serial, ctrl_inputs, format_inputs) ==
    \/ CallSetStream(serial)
    \/ CallSetCtrl(serial, ctrl_inputs)
    \/ CallSetFormat(serial, format_inputs)
    \/ CallSuspend(serial)
    \/ CallResume(serial)

\* Requests and system-sleep callbacks one at a time.
Next ==
    \/ Calls(TRUE, CtrlInputs, FormatInputs)
    \/ UserStep
    \/ PmStep
    \/ \E c \in Ctx : Step(c)
    \/ RpmIdle

Spec == Init /\ [][Next]_vars

\* The two contexts independent of each other, with fewer distinct requests.
ConcCtrlInputs == { <<"hflip", 1>> }

ConcFormatInputs == { <<0, "SRGGB8", 640, 480>>, <<2, "none", 0, 0>> }

NextConc ==
    \/ Calls(FALSE, ConcCtrlInputs, ConcFormatInputs)
    \/ UserStep
    \/ PmStep
    \/ \E c \in Ctx : Step(c)
    \/ RpmIdle

InitConc ==
    /\ pc = [c \in Ctx |-> "idle"]
    /\ op = [c \in Ctx |-> "none"]
    /\ arg = [c \in Ctx |-> NoArg]
    /\ ret = [c \in Ctx |-> 0]
    /\ ci = [c \in Ctx |-> 1]
    /\ mutex = NoOwner
    /\ streaming = FALSE
    /\ mode = 1
    /\ fmt_code = "SRGGB10"
    /\ cur = InitCur
    /\ ctrl_val = [f \in Flips |-> 0]
    /\ rng = InitRng
    /\ grabbed = [f \in Flips |-> FALSE]
    /\ usage_count = 0
    /\ held_refs = 0
    /\ rpm_status = "suspended"
    /\ idle_pending = FALSE
    /\ asleep = FALSE
    /\ hw = [r \in Reg |-> Unset]
    /\ log = [c \in Ctx |-> <<>>]
    /\ entry = [c \in Ctx |-> InitSnapshot]
    /\ out = [c \in Ctx |-> NoFormat]
    /\ try_fmt = OpenFormats(0, 0)
    /\ budget = MaxConcCalls

SpecConc == InitConc /\ [][NextConc]_vars

\* The format and control requests of the user context alone, with more
\* distinct requests: every pad, catalog and non-catalog sizes, codes of both
\* bit depths and an unknown code, vertical blanking and both flips.
FmtCtrlInputs ==
    { <<"vblank", 4>>, <<"vblank", 2000>>, <<"exposure", 3000>>,
      <<"hflip", 1>>, <<"hflip", 0>>, <<"vflip", 1>>, <<"hblank", 100>> }

FmtFormatInputs ==
    { <<0, "SRGGB10", 3280, 2464>>, <<0, "SRGGB8", 3280, 2464>>,
      <<0, "SBGGR8", 640, 480>>, <<0, "SGBRG10", 1920, 1080>>,
      <<0, "UNKNOWN", 1640, 1232>>, <<0, "SRGGB10", 1000, 800>>,
      <<0, "SRGGB10", 1780, 1156>>,
      <<1, "SENSOR_DATA", 16384, 1>>, <<2, "SRGGB10", 640, 480>> }

FmtPads == 0..2

EnumCodeInputs == { <<0, 0>>, <<0, 1>>, <<0, 2>>, <<1, 0>>, <<1, 1>>, <<2, 0>> }

EnumSizeInputs ==
    { <<0, 0, "SRGGB10">>, <<0, 3, "SGRBG8">>, <<0, 4, "SRGGB10">>,
      <<1, 0, "SENSOR_DATA">>, <<1, 1, "SENSOR_DATA">>, <<2, 0, "SRGGB10">> }

FmtStep == GfLock("user") \/ GfBody("user") \/ EmBody("user") \/ EfBody("user")

NextFmt ==
    \/ CallSetStream(TRUE)
    \/ CallSetCtrl(TRUE, FmtCtrlInputs)
    \/ CallSetFormat(TRUE, FmtFormatInputs)
    \/ CallGetFormat(FmtPads)
    \/ CallEnumMbusCode(EnumCodeInputs)
    \/ CallEnumFrameSize(EnumSizeInputs)
    \/ UserStep
    \/ FmtStep
    \/ Step("user")
    \/ RpmIdle

InitFmt ==
    /\ pc = [c \in Ctx |-> "idle"]
    /\ op = [c \in Ctx |-> "none"]
    /\ arg = [c \in Ctx |-> NoArg]
    /\ ret = [c \in Ctx |-> 0]
    /\ ci = [c \in Ctx |-> 1]
    /\ mutex = NoOwner
    /\ streaming = FALSE
    /\ mode = 1
    /\ fmt_code = "SRGGB10"
    /\ cur = InitCur
    /\ ctrl_val = [f \in Flips |-> 0]
    /\ rng = InitRng
    /\ grabbed = [f \in Flips |-> FALSE]
    /\ usage_count = 0
    /\ held_refs = 0
    /\ rpm_status = "suspended"
    /\ idle_pending = FALSE
    /\ asleep = FALSE
    /\ hw = [r \in Reg |-> Unset]
    /\ log = [c \in Ctx |-> <<>>]
    /\ entry = [c \in Ctx |-> InitSnapshot]
    /\ out = [c \in Ctx |-> NoFormat]
    /\ try_fmt = OpenFormats(0, 0)
    /\ budget = MaxFmtCalls

SpecFmt == InitFmt /\ [][NextFmt]_vars

\* The life of one instance: probe, then streaming and control requests of
\* the user context, then remove.  A failed probe and a remove end it.
InitLife ==
    /\ pc = [c \in Ctx |-> IF c = "user" THEN "pr_hwcfg" ELSE "idle"]
    /\ op = [c \in Ctx |-> IF c = "user" THEN "probe" ELSE "none"]
    /\ arg = [c \in Ctx |-> NoArg]
    /\ ret = [c \in Ctx |-> 0]
    /\ ci = [c \in Ctx |-> 1]
    /\ mutex = NoOwner
    /\ streaming = FALSE
    /\ mode = NoMode
    /\ fmt_code = "none"
    /\ cur = NoCtrlCur
    /\ ctrl_val = [f \in Flips |-> 0]
    /\ rng = NoCtrlRng
    /\ grabbed = [f \in Flips |-> FALSE]
    /\ usage_count = 0
    /\ held_refs = 0
    /\ rpm_status = "suspended"
    /\ idle_pending = FALSE
    /\ asleep = FALSE
    /\ hw = [r \in Reg |-> Unset]
    /\ log = [c \in Ctx |-> <<>>]
    /\ entry = [c \in Ctx |-> InitSnapshot]
    /\ out = [c \in Ctx |-> NoFormat]
    /\ try_fmt = [p \in 0..(NUM_PADS - 1) |-> NoFormat]
    /\ budget = Unlimited

NextLife ==
    \/ ProbeStep("user")
    \/ CallSetStream(TRUE)
    \/ CallSetCtrl(TRUE, CtrlInputs)
    \/ CallSetFormat(TRUE, FormatInputs)
    \/ CallRemove
    \/ UserStep
    \/ Step("user")
    \/ RemoveStep("user")
    \/ RpmIdle

SpecLife == InitLife /\ [][NextLife]_vars

\* Frame timing at its limits: the smallest and the largest mode, and
\* requests for the largest vertical blanking and exposure, which the
\* control framework brings down to the current maximum.
VtsCtrlInputs == { <<"vblank", imx307_VTS_MAX>>, <<"exposure", imx307_VTS_MAX>> }

VtsFormatInputs == { <<0, "SRGGB10", 640, 480>>, <<0, "SRGGB10", 3280, 2464>> }

NextVts ==
    \/ CallSetStream(TRUE)
    \/ CallSetCtrl(TRUE, VtsCtrlInputs)
    \/ CallSetFormat(TRUE, VtsFormatInputs)
    \/ UserStep
    \/ Step("user")
    \/ RpmIdle

InitVts ==
    /\ pc = [c \in Ctx |-> "idle"]
    /\ op = [c \in Ctx |-> "none"]
    /\ arg = [c \in Ctx |-> NoArg]
    /\ ret = [c \in Ctx |-> 0]
    /\ ci = [c \in Ctx |-> 1]
    /\ mutex = NoOwner
    /\ streaming = FALSE
    /\ mode = 1
    /\ fmt_code = "SRGGB10"
    /\ cur = InitCur
    /\ ctrl_val = [f \in Flips |-> 0]
    /\ rng = InitRng
    /\ grabbed = [f \in Flips |-> FALSE]
    /\ usage_count = 0
    /\ held_refs = 0
    /\ rpm_status = "suspended"
    /\ idle_pending = FALSE
    /\ asleep = FALSE
    /\ hw = [r \in Reg |-> Unset]
    /\ log = [c \in Ctx |-> <<>>]
    /\ entry = [c \in Ctx |-> InitSnapshot]
    /\ out = [c \in Ctx |-> NoFormat]
    /\ try_fmt = OpenFormats(0, 0)
    /\ budget = MaxVtsCalls

SpecVts == InitVts /\ [][NextVts]_vars

\* TRY and ACTIVE format requests of one file handle, between streaming
\* and control requests.
TryCtrlInputs == { <<"hflip", 1>>, <<"vblank", 2000>> }

TryActiveInputs == { <<0, "SRGGB8", 640, 480>>, <<1, "SENSOR_DATA", 16384, 1>> }

TryFormatInputs ==
    { <<0, "SRGGB8", 640, 480>>, <<0, "SGBRG10", 1920, 1080>>,
      <<0, "UNKNOWN", 1000, 800>>, <<1, "SRGGB10", 640, 480>>,
      <<2, "SRGGB10", 640, 480>> }

NextTry ==
    \/ CallSetStream(TRUE)
    \/ CallSetCtrl(TRUE, TryCtrlInputs)
    \/ CallSetFormat(TRUE, TryActiveInputs)
    \/ CallSetFormatTry(TryFormatInputs)
    \/ CallGetFormat(FmtPads)
    \/ CallGetFormatTry(FmtPads)
    \/ CallOpen
    \/ UserStep
    \/ GfLock("user") \/ GfBody("user")
    \/ OpLock("user") \/ OpBody("user")
    \/ Step("user")
    \/ RpmIdle

InitTry ==
    /\ pc = [c \in Ctx |-> "idle"]
    /\ op = [c \in Ctx |-> "none"]
    /\ arg = [c \in Ctx |-> NoArg]
    /\ ret = [c \in Ctx |-> 0]
    /\ ci = [c \in Ctx |-> 1]
    /\ mutex = NoOwner
    /\ streaming = FALSE
    /\ mode = 1
    /\ fmt_code = "SRGGB10"
    /\ cur = InitCur
    /\ ctrl_val = [f \in Flips |-> 0]
    /\ rng = InitRng
    /\ grabbed = [f \in Flips |-> FALSE]
    /\ usage_count = 0
    /\ held_refs = 0
    /\ rpm_status = "suspended"
    /\ idle_pending = FALSE
    /\ asleep = FALSE
    /\ hw = [r \in Reg |-> Unset]
    /\ log = [c \in Ctx |-> <<>>]
    /\ entry = [c \in Ctx |-> InitSnapshot]
    /\ out = [c \in Ctx |-> NoFormat]
    /\ try_fmt = OpenFormats(0, 0)
    /\ budget = MaxTryCalls

SpecTry == InitTry /\ [][NextTry]_vars

\* ===================================================================== claims
\* ------------------------------------------------------- reading the log
NumEv(c, e) == Len(SelectSeq(log[c], LAMBDA x : x.e = e))
IsWrite(x) == x.e \in {"write", "write_regs"}
Writes(c) == SelectSeq(log[c], IsWrite)
GotPower(c) == \E i \in 1..Len(log[c]) : log[c][i].e = "get_sync" /\ log[c][i].ok
PowerOnFailed(c) ==
    \E i \in 1..Len(log[c]) : log[c][i].e = "get_sync" /\ ~log[c][i].ok
FlipsGrabbedBy(c) ==
    \E i \in 1..Len(log[c]) : log[c][i].e = "grab" /\ log[c][i].v = 1
LastWriteFailed(c) == Writes(c) # <<>> /\ ~Writes(c)[Len(Writes(c))].ok

\* s is a subsequence of t.
RECURSIVE IsSubseq(_, _)
IsSubseq(s, t) ==
    IF s = <<>> THEN TRUE
    ELSE IF t = <<>> THEN FALSE
    ELSE IF Head(s) = Head(t) THEN IsSubseq(Tail(s), Tail(t))
    ELSE IsSubseq(s, Tail(t))

\* The user context is about to return from set_streaming(enable).
AtReturn(c, o) == pc[c] = "done" /\ op[c] = o
StartReturned ==
    AtReturn("user", "set_stream") /\ arg["user"].enable
                                   /\ ~entry["user"].streaming
StopReturned ==
    AtReturn("user", "set_stream") /\ ~arg["user"].enable
                                   /\ entry["user"].streaming

\* C1: when start() (set_streaming(true) from STOPPED) fails after power was
\* acquired (a table write, a format write, the control replay or the
\* streaming-enable write failed), then on return the state is STOPPED, the
\* error of the failed write is returned, and the power reference taken in
\* step 1 has been put back exactly once.
C1_FailedStartReleasesPower ==
    (StartReturned /\ GotPower("user") /\ LastWriteFailed("user")) =>
        /\ ~streaming
        /\ ret["user"] = EIO
        /\ NumEv("user", "put") = 1
        /\ NumEv("user", "put_noidle") = 0
        /\ usage_count = entry["user"].usage
        /\ mutex = NoOwner

\* The transport error on the 5th table entry: 4 entries written, then the
\* error, power put back once, STOPPED.
C1_Witness ==
    /\ StartReturned
    /\ \E i \in 1..Len(log["user"]) :
         /\ log["user"][i].e = "write_regs" /\ log["user"][i].a = "TABLE"
         /\ log["user"][i].v = 4 /\ ~log["user"][i].ok
    /\ NumEv("user", "put") = 1
    /\ ~streaming

\* C2: a successful start() acts in this order: power-on request, the whole
\* register table of the active mode, the format triple of the stored code's
\* bit depth, s_ctrl for every writable control in registration order, the
\* streaming-enable write, the grab of the flips; and the state is STREAMING
\* only once all of them succeeded.
C2_StartOrder ==
    LET L == log["user"]
        n == Len(L)
        mid == SubSeq(L, 4, n - 2)
        ids == [i \in 1..Len(SelectSeq(mid, LAMBDA x : x.e = "s_ctrl")) |->
                   SelectSeq(mid, LAMBDA x : x.e = "s_ctrl")[i].a]
    IN  /\ (StartReturned /\ FlipsGrabbedBy("user")) =>
              /\ n >= 5 + Len(SetupOrder)
              /\ L[1].e = "get_sync" /\ L[1].ok
              /\ L[2].e = "write_regs" /\ L[2].a = "TABLE" /\ L[2].ok
              /\ L[2].v = supported_modes[mode].num_of_regs
              /\ hw["TABLE"] = mode
              /\ L[3].e = "write_regs" /\ L[3].a = "FMT" /\ L[3].ok
              /\ L[3].v = NumFramefmtRegs
              /\ hw["FMT"] = FramefmtDepth(fmt_code)
              /\ \A i \in 1..Len(mid) :
                    /\ mid[i].e \in {"s_ctrl", "write"}
                    /\ mid[i].a # "MODE_SELECT"
              /\ IsSubseq(SetupOrder, ids)
              /\ \A i \in 1..Len(ids) : ids[i] \in Ctrl \ ReadOnlyCtrl
              /\ L[n - 1].e = "write" /\ L[n - 1].a = "MODE_SELECT"
              /\ L[n - 1].v = imx307_MODE_STREAMING /\ L[n - 1].ok
              /\ L[n].e = "grab" /\ L[n].v = 1
              /\ streaming
              /\ ret["user"] = 0
        /\ (op["user"] = "set_stream" /\ arg["user"].enable
              /\ ~entry["user"].streaming /\ streaming) =>
              (pc["user"] = "done" /\ FlipsGrabbedBy("user"))

C2_Witness ==
    /\ StartReturned
    /\ FlipsGrabbedBy("user")
    /\ streaming
    /\ hw["MODE_SELECT"] = imx307_MODE_STREAMING
    /\ Len(Writes("user")) >= 3 + Len(SetupOrder)

\* C3: when the power-on request of step 1 fails, start() issues no register
\* write and no second power request, does not grab the flips, leaves the
\* usage counter and the STOPPED state as they were, and returns the error of
\* the power sequencer.
C3_PowerOnFailureAborts ==
    (StartReturned /\ PowerOnFailed("user")) =>
        /\ Writes("user") = <<>>
        /\ NumEv("user", "get_sync") = 1
        /\ NumEv("user", "grab") = 0
        /\ grabbed = entry["user"].grabbed
        /\ usage_count = entry["user"].usage
        /\ ~streaming
        /\ ret["user"] = log["user"][1].v
        /\ ret["user"] \in PowerOnResults \ {0}
        /\ mutex = NoOwner

C3_Witness ==
    /\ StartReturned
    /\ PowerOnFailed("user")
    /\ ret["user"] = ENOMEM
    /\ ~streaming

\* C4: stop() (set_streaming(false) from STREAMING) ends STOPPED with the
\* flips released and one power reference put back, whether or not the
\* streaming-disable write succeeded, and returns success.
C4_StopAlwaysStops ==
    StopReturned =>
        /\ ~streaming
        /\ \A f \in Flips : ~grabbed[f]
        /\ NumEv("user", "put") = 1
        /\ usage_count = entry["user"].usage - 1
        /\ ret["user"] = 0
        /\ mutex = NoOwner

\* stop() whose streaming-disable write failed.
C4_Witness ==
    /\ StopReturned
    /\ LastWriteFailed("user")
    /\ ~streaming
    /\ ret["user"] = 0

\* C5: set_streaming(enable) with the state already equal to enable returns
\* success and does nothing: no power request, no register write, no change
\* of the flip grab or of the streaming state, and the lock is released.
C5_SameStateIsNoOp ==
    (AtReturn("user", "set_stream")
        /\ arg["user"].enable = entry["user"].streaming) =>
        /\ ret["user"] = 0
        /\ log["user"] = <<>>
        /\ streaming = entry["user"].streaming
        /\ grabbed = entry["user"].grabbed
        /\ usage_count = entry["user"].usage
        /\ mutex = NoOwner

C5_Witness ==
    /\ AtReturn("user", "set_stream")
    /\ arg["user"].enable
    /\ entry["user"].streaming
    /\ streaming
    /\ log["user"] = <<>>

\* C6: a set of hflip or vflip made while STREAMING is refused with the
\* locked-control error (-EBUSY), leaves the stored value as it was and
\* writes no register; made while STOPPED it is not refused as locked, and
\* is stored unless its register write failed.
C6_FlipsLockedWhileStreaming ==
    (AtReturn("user", "set_ctrl") /\ arg["user"].id \in Flips) =>
        IF entry["user"].streaming
        THEN /\ ret["user"] = EBUSY
             /\ cur[arg["user"].id] = entry["user"].cur[arg["user"].id]
             /\ Writes("user") = <<>>
        ELSE /\ ret["user"] # EBUSY
             /\ (~LastWriteFailed("user")) =>
                    (ret["user"] = 0 /\ cur[arg["user"].id] = arg["user"].v)

\* hflip = 1 refused while STREAMING with hflip stored as 0.
C6_Witness ==
    /\ AtReturn("user", "set_ctrl")
    /\ arg["user"].id = "hflip"
    /\ arg["user"].v = 1
    /\ entry["user"].streaming
    /\ ret["user"] = EBUSY
    /\ cur["hflip"] = 0

\* C7: a resume from STREAMING whose start() fails returns the failure, ends
\* STOPPED with the flips released, has put back exactly as many power
\* references as it acquired, and attempts no register write once the
\* reference is put back (every write it makes is made with power held).
C7_FailedResumeIsConsistent ==
    (AtReturn("pm", "resume") /\ entry["pm"].streaming /\ ret["pm"] # 0) =>
        /\ ~streaming
        /\ \A f \in Flips : ~grabbed[f]
        /\ NumEv("pm", "put") =
               Len(SelectSeq(log["pm"], LAMBDA x : x.e = "get_sync" /\ x.ok))
        /\ usage_count = entry["pm"].usage
        /\ \A i \in 1..Len(log["pm"]) :
               IsWrite(log["pm"][i]) => log["pm"][i].held

\* C8: suspend and resume run under the instance lock, so the user context and
\* the power-management context are never both inside an operation's body.
InBody(c) == pc[c] \notin {"idle", "done", "ss_lock", "sc_lock", "sf_lock"}
C8_OneOperationInBody == ~(InBody("user") /\ InBody("pm"))

\* C9: every register write towards the sensor, a single one or a table, is
\* issued while a power reference acquired before it is still held.
C9_WritesOnlyWhilePowerHeld ==
    \A c \in Ctx : \A i \in 1..Len(log[c]) :
        IsWrite(log[c][i]) => log[c][i].held

\* The register value that stands for the stored value of control id.
StoredRegVal(id) ==
    CtrlRegVal([CtlState EXCEPT !.val = [@ EXCEPT !["hflip"] = cur["hflip"],
                                                  !["vflip"] = cur["vflip"]]],
               id, cur[id])

\* C10: a set of a writable, ungrabbed control made while the device is not
\* powered returns success, stores the value (brought into the control's
\* range) and writes no register; and once a start has written the
\* streaming-enable command, the register of every writable control holds
\* the control's stored value.
C10_ReplayMakesHardwareMatchStored ==
    /\ (AtReturn("user", "set_ctrl")
          /\ arg["user"].id \in Ctrl \ ReadOnlyCtrl
          /\ (arg["user"].id \in Flips => ~entry["user"].grabbed[arg["user"].id])
          /\ ~entry["user"].streaming) =>
           /\ ret["user"] = 0
           /\ Writes("user") = <<>>
           /\ cur[arg["user"].id] =
                  Clamp(arg["user"].v, entry["user"].rng[arg["user"].id].min,
                        entry["user"].rng[arg["user"].id].max)
    /\ \A c \in Ctx :
         pc[c] = "st_grab" =>
           \A i \in 1..Len(SetupOrder) :
              hw[CtrlReg(SetupOrder[i])] = StoredRegVal(SetupOrder[i])

\* ------------------------------------------------ formats and control ranges
Quiescent == \A c \in Ctx : pc[c] = "idle"
ActiveMode == supported_modes[mode]

\* C11: whenever no operation is in progress, the maximum of exposure is the
\* active mode's height plus the stored vertical blanking minus 4.
C11_ExposureMaxTracksVblank ==
    Quiescent =>
        rng["exposure"].max = ActiveMode.height + cur["vblank"] - 4

\* An ACTIVE set_fmt on the image pad has returned, the active mode changed.
ModeChanged ==
    /\ AtReturn("user", "set_fmt")
    /\ arg["user"].pad = IMAGE_PAD
    /\ entry["user"].mode # mode

\* C12: after a set_fmt that changed the active mode to M, the range of
\* vertical blanking is [4, 0xFFFF - M.height], its value is
\* M.vts_def - M.height, the maximum of exposure is M.vts_def - 4 and the
\* default of exposure is the smaller of that maximum and 0x640.
C12_ModeChangeSetsBlankingAndExposure ==
    ModeChanged =>
        /\ rng["vblank"].min = 4
        /\ rng["vblank"].max = 65535 - ActiveMode.height
        /\ cur["vblank"] = ActiveMode.vts_def - ActiveMode.height
        /\ rng["exposure"].max = ActiveMode.vts_def - 4
        /\ rng["exposure"].def =
               IF rng["exposure"].max < 1600 THEN rng["exposure"].max ELSE 1600

\* C13: after a set_fmt that changed the active mode to M, horizontal blanking
\* is 3448 - M.width with minimum = maximum = that value; the control is
\* read-only (a set is refused and changes nothing) and no operation other
\* than set_fmt changes its value or range.
C13_HblankFollowsModeWidth ==
    /\ ModeChanged =>
          /\ cur["hblank"] = 3448 - ActiveMode.width
          /\ rng["hblank"].min = 3448 - ActiveMode.width
          /\ rng["hblank"].max = 3448 - ActiveMode.width
    /\ (pc["user"] = "done" /\ op["user"] # "set_fmt") =>
          /\ cur["hblank"] = entry["user"].cur["hblank"]
          /\ rng["hblank"] = entry["user"].rng["hblank"]
    /\ (AtReturn("user", "set_ctrl") /\ arg["user"].id = "hblank") =>
          ret["user"] = EACCES

\* A set_fmt for 3280x2464 on the image pad has returned.
Requested3280x2464 ==
    /\ AtReturn("user", "set_fmt")
    /\ arg["user"].pad = IMAGE_PAD
    /\ arg["user"].w = 3280 /\ arg["user"].h = 2464

\* C14, as stated: requesting 3280x2464 selects that mode (vts_def 0x0dc6)
\* and the maximum of exposure then is 3526.
C14_AsStated ==
    Requested3280x2464 =>
        /\ ActiveMode.width = 3280 /\ ActiveMode.height = 2464
        /\ rng["exposure"].max = 3526

\* C14, amended: requesting 3280x2464 selects that mode, whose vts_def is
\* 0x0dc6 = 3526, and when this changes the active mode the maximum of
\* exposure is 0x0dc6 - 4 = 3522, as it is after attach.
C14_ExposureMaxOfFullMode ==
    /\ Requested3280x2464 =>
          /\ ActiveMode.width = 3280 /\ ActiveMode.height = 2464
          /\ ActiveMode.vts_def = 3526
          /\ (entry["user"].mode # mode) => rng["exposure"].max = 3522
    /\ InitRng["exposure"].max = 3522

C14_Witness ==
    /\ Requested3280x2464
    /\ entry["user"].mode # mode
    /\ entry["user"].rng["exposure"].max # 3522
    /\ rng["exposure"].max = 3522

\* C15: a set of vertical blanking to X with active mode height H leaves the
\* mode as it is and makes the maximum of exposure H + X - 4, its default the
\* smaller of that and 0x640, and the stored exposure at most the new maximum.
C15_VblankSetRecomputesExposure ==
    (AtReturn("user", "set_ctrl") /\ arg["user"].id = "vblank") =>
        /\ mode = entry["user"].mode
        /\ rng["exposure"].max = ActiveMode.height + arg["user"].v - 4
        /\ rng["exposure"].def =
               IF rng["exposure"].max < 1600 THEN rng["exposure"].max ELSE 1600
        /\ cur["exposure"] <= rng["exposure"].max

\* The sizes of the catalog.
CatalogSizes ==
    { <<supported_modes[i].width, supported_modes[i].height>> : i \in 1..NumModes }

\* Requested sizes the search is also checked on, apart from the requests made.
GridWidths == {0, 1140, 1780, 2600, 5000}
GridHeights == {0, 856, 1156, 1848, 5000}

\* C16: an ACTIVE set_fmt(code, w, h) on the image pad makes a catalog mode
\* of least distance |width - w| + |height - h| the active one and hands its
\* size back, which is the requested size exactly when (w, h) is in the
\* catalog; get_fmt on the image pad hands back the size of the active mode,
\* always one of the four catalog sizes.
C16_FormatRoundTrip ==
    /\ (AtReturn("user", "set_fmt") /\ arg["user"].pad = IMAGE_PAD) =>
          /\ \A i \in 1..NumModes :
                Abs(ActiveMode.width - arg["user"].w)
                    + Abs(ActiveMode.height - arg["user"].h)
                <= Abs(supported_modes[i].width - arg["user"].w)
                    + Abs(supported_modes[i].height - arg["user"].h)
          /\ out["user"].width = ActiveMode.width
          /\ out["user"].height = ActiveMode.height
          /\ (<<out["user"].width, out["user"].height>>
                 = <<arg["user"].w, arg["user"].h>>)
             <=> (<<arg["user"].w, arg["user"].h>> \in CatalogSizes)
    /\ AtReturn("user", "set_fmt") =>
        \A w \in GridWidths, h \in GridHeights :
          \A i \in 1..NumModes :
             Abs(supported_modes[v4l2_find_nearest_size(w, h)].width - w)
                 + Abs(supported_modes[v4l2_find_nearest_size(w, h)].height - h)
             <= Abs(supported_modes[i].width - w)
                 + Abs(supported_modes[i].height - h)
    /\ (AtReturn("user", "get_fmt") /\ arg["user"].pad = IMAGE_PAD) =>
          /\ ret["user"] = 0
          /\ out["user"].width = ActiveMode.width
          /\ out["user"].height = ActiveMode.height
          /\ <<out["user"].width, out["user"].height>> \in CatalogSizes

\* get_fmt after set_fmt(SRGGB10, 1000, 800): 640x480 with a 10-bit code is
\* active only through that request.
C16_Witness ==
    /\ AtReturn("user", "get_fmt")
    /\ arg["user"].pad = IMAGE_PAD
    /\ fmt_code = "SRGGB10"
    /\ out["user"].width = 640
    /\ out["user"].height = 480

\* The codes a request may carry: the table's, and two that are not in it.
RequestCodes == { codes[i] : i \in 1..Len(codes) } \cup {"UNKNOWN", "SENSOR_DATA"}

\* 0-based index of code in the code table, 0 when it is not there.
TableIndex(code) ==
    IF \E k \in 1..8 : codes[k] = code
    THEN (CHOOSE k \in 1..8 : codes[k] = code) - 1
    ELSE 0

\* codes[(i & ~3) | (vflip ? 2 : 0) | (hflip ? 1 : 0)], 0-based.
Resolved(code, hf, vf) ==
    codes[4 * (TableIndex(code) \div 4) + (IF vf # 0 THEN 2 ELSE 0)
                                        + (IF hf # 0 THEN 1 ELSE 0) + 1]

BitDepthGroup(code) ==
    IF code \in {"SRGGB8", "SGRBG8", "SGBRG8", "SBGGR8"} THEN 8 ELSE 10

\* C17: resolving a requested code with flips (hflip, vflip) gives
\* codes[(i & ~3) | (vflip ? 2 : 0) | (hflip ? 1 : 0)], i the index of the
\* request in the 8-entry table or 0 when it is not there; the result is a
\* table entry of the bit-depth group of the request (the 10-bit group for an
\* unknown code) and resolves to itself under the same flips.  set_fmt on
\* the image pad hands back the requested code resolved with the flips.
C17_ResolveCode ==
    /\ Len(codes) = 8
    /\ (AtReturn("user", "set_fmt") \/ AtReturn("user", "get_fmt")) =>
        \A code \in RequestCodes, hf \in 0..1, vf \in 0..1 :
          LET r == imx307_get_format_code(code, hf, vf)
          IN  /\ r = Resolved(code, hf, vf)
              /\ \E k \in 1..8 : codes[k] = r
              /\ BitDepthGroup(r) = BitDepthGroup(code)
              /\ imx307_get_format_code(r, hf, vf) = r
    /\ (AtReturn("user", "set_fmt") /\ arg["user"].pad = IMAGE_PAD) =>
          out["user"].code =
              Resolved(arg["user"].code, ctrl_val["hflip"], ctrl_val["vflip"])

\* An unknown code requested with hflip set: the 10-bit h-flipped entry.
C17_Witness ==
    /\ AtReturn("user", "set_fmt")
    /\ arg["user"].pad = IMAGE_PAD
    /\ arg["user"].code = "UNKNOWN"
    /\ ctrl_val["hflip"] = 1
    /\ ctrl_val["vflip"] = 0
    /\ out["user"].code = "SGRBG10"

\* C18: get_fmt on the image pad hands back the entry of the stored code's
\* bit-depth group that the stored hflip and vflip values select, whatever
\* was done to the flip controls since the last set_fmt.
C18_GetFormatFollowsFlips ==
    (AtReturn("user", "get_fmt") /\ arg["user"].pad = IMAGE_PAD) =>
        out["user"].code = Resolved(fmt_code, cur["hflip"], cur["vflip"])

\* The four requests that carry a pad index.
PadRequests == {"set_fmt", "get_fmt", "enum_mbus_code", "enum_frame_size"}

\* C19: a set_fmt, get_fmt, enum_mbus_code or enum_frame_size with a pad
\* index of 2 or more returns -EINVAL and leaves the active mode, the stored
\* code, every control value and range and the streaming state as they were;
\* it touches no register and hands nothing back.
C19_BadPadRejected ==
    (pc["user"] = "done" /\ op["user"] \in PadRequests /\ arg["user"].pad >= 2) =>
        /\ ret["user"] = EINVAL
        /\ mode = entry["user"].mode
        /\ fmt_code = entry["user"].fmt_code
        /\ cur = entry["user"].cur
        /\ rng = entry["user"].rng
        /\ streaming = entry["user"].streaming
        /\ grabbed = entry["user"].grabbed
        /\ usage_count = entry["user"].usage
        /\ log["user"] = <<>>
        /\ out["user"] = NoFormat
        /\ mutex = NoOwner

\* set_fmt(SRGGB10, 640, 480) on pad 2 while 3280x2464 is active.
C19_Witness ==
    /\ AtReturn("user", "set_fmt")
    /\ arg["user"].pad = 2
    /\ arg["user"].w = 640
    /\ ActiveMode.width = 3280
    /\ ret["user"] = EINVAL

\* C20: an ACTIVE set_fmt on the image pad that selects the mode already
\* active leaves the values and ranges of vertical blanking, exposure and
\* horizontal blanking exactly as they were.
C20_SameModeIsNoOp ==
    (AtReturn("user", "set_fmt") /\ arg["user"].pad = IMAGE_PAD
        /\ mode = entry["user"].mode) =>
        \A id \in {"vblank", "exposure", "hblank"} :
            /\ cur[id] = entry["user"].cur[id]
            /\ rng[id] = entry["user"].rng[id]

\* The positions of the log of c at which the s_ctrl callback was entered
\* for control id, and those of the writes to register reg.
CallbackAt(c, id) ==
    { i \in 1..Len(log[c]) : log[c][i].e = "s_ctrl" /\ log[c][i].a = id }
WriteAt(c, reg) ==
    { i \in 1..Len(log[c]) : log[c][i].e = "write" /\ log[c][i].a = reg }

\* An ACTIVE set_fmt on the image pad that has returned after taking the
\* branch of lines 978-1011.
Recomputed ==
    /\ AtReturn("user", "set_fmt")
    /\ arg["user"].pad = IMAGE_PAD
    /\ (mode # entry["user"].mode \/ fmt_code # entry["user"].fmt_code)

\* Every frame length written during the request is h plus the vertical
\* blanking the callback was entered with.
FrameLengthsUse(h) ==
    \A i \in WriteAt("user", "VTS") :
        \E j \in CallbackAt("user", "vblank") :
            /\ j < i
            /\ \A k \in CallbackAt("user", "vblank") : k < i => k <= j
            /\ log["user"][i].v = h + log["user"][j].v

\* C21 as stated: the new mode is stored last, so the callbacks of step (a)
\* compute the frame length from the height of the previous mode.
C21_AsStated ==
    Recomputed => FrameLengthsUse(supported_modes[entry["user"].mode].height)

\* C21: the new mode is stored first, then (a) vertical blanking range and
\* value, (b) exposure range, (c) horizontal blanking: the callbacks of
\* step (a) compute the frame length from the height of the new mode, and
\* no callback for vertical blanking or exposure comes after the one for
\* horizontal blanking.
C21_ModeStoredFirst ==
    Recomputed =>
        /\ FrameLengthsUse(ActiveMode.height)
        /\ \A i \in CallbackAt("user", "hblank") :
             \A j \in CallbackAt("user", "vblank") \cup CallbackAt("user", "exposure") :
                 j < i

\* A mode change while streaming that wrote a new frame length.
C21_Witness ==
    /\ Recomputed
    /\ mode # entry["user"].mode
    /\ \E i \in WriteAt("user", "VTS") : log["user"][i].ok
    /\ CallbackAt("user", "hblank") # {}

\* C22: whenever no request is in progress, the stored value of every
\* control lies within the current minimum and maximum of that control.
C22_ValuesWithinRange ==
    Quiescent => \A id \in Ctrl : cur[id] >= rng[id].min /\ cur[id] <= rng[id].max

\* The positions of the log of c holding an event of kind e on object a.
EventAt(c, e, a) ==
    { i \in 1..Len(log[c]) : log[c][i].e = e /\ log[c][i].a = a }

\* remove has returned; the instance is no longer bound.
Detached == pc["user"] = "gone" /\ op["user"] = "remove"

\* The events of the log of remove by which power is given up: a
\* pm_runtime_put or a call of imx307_power_off.
PowerReleases(c) == EventAt(c, "put", "power") \cup EventAt(c, "power_off", "power")

\* C23: after the detach of an instance that was STREAMING the streaming
\* state is STOPPED, the streaming-disable command was written, and power
\* was released exactly once, all before the control handler is freed and
\* the mutex destroyed.
C23_DetachStopsAndReleases ==
    (Detached /\ entry["user"].streaming) =>
        /\ ~streaming
        /\ \E d \in EventAt("user", "handler_free", "ctrl_handler") :
             /\ \E w \in WriteAt("user", "MODE_SELECT") :
                  w < d /\ log["user"][w].v = imx307_MODE_STANDBY
             /\ Cardinality(PowerReleases("user")) = 1
             /\ \A r \in PowerReleases("user") : r < d

\* A hardware-identity error seen by probe: the rate of the external clock
\* is not the expected one, the chip id cannot be read, or it differs.
IdentityError(c) ==
    \/ \E i \in EventAt(c, "clk_rate", "xclk") : ~log[c][i].ok
    \/ \E i \in EventAt(c, "read", "CHIP_ID") : ~log[c][i].ok
    \/ \E i \in EventAt(c, "chip_id", "CHIP_ID") : ~log[c][i].ok

PowerOnOk(c) == { i \in EventAt(c, "power_on", "power") : log[c][i].ok }

\* C24: a probe that met a hardware-identity error never goes on to
\* register the instance; it returns an error, and when it has returned no
\* sub-device is registered, no control exists, nothing streams, the sensor
\* is off, and imx307_power_off was called once if imx307_power_on had
\* succeeded and not at all otherwise.  The same holds for every other
\* failing probe.
C24_FailedAttachIsFatal ==
    /\ (op["user"] = "probe" /\ IdentityError("user")) =>
           pc["user"] \in {"pr_off", "gone"}
    /\ (op["user"] = "probe" /\ pc["user"] = "gone") =>
           /\ ret["user"] # 0
           /\ EventAt("user", "register", "subdev") = {}
              \/ \A i \in EventAt("user", "register", "subdev") : ~log["user"][i].ok
           /\ cur = NoCtrlCur /\ rng = NoCtrlRng
           /\ ~streaming
           /\ rpm_status = "suspended"
           /\ usage_count = 0
           /\ Cardinality(EventAt("user", "power_off", "power")) =
                  Cardinality(PowerOnOk("user"))
           /\ \A i \in PowerOnOk("user") :
                  \A j \in EventAt("user", "power_off", "power") : i < j

\* A probe that powered the sensor, read another chip id, and has returned.
C24_Witness ==
    /\ op["user"] = "probe"
    /\ pc["user"] = "gone"
    /\ \E i \in EventAt("user", "chip_id", "CHIP_ID") : ~log["user"][i].ok
    /\ ret["user"] = EIO
    /\ Cardinality(EventAt("user", "power_off", "power")) = 1

\* C25: every entry of imx307_get_format_code finds the mutex held by the
\* context that makes the call.
C25_ResolveCodeUnderLock ==
    \A c \in Ctx :
        \A i \in 1..Len(log[c]) :
            log[c][i].e = "get_format_code" => log[c][i].ok

\* The labels at which a handler is about to take the mutex, and the
\* requests that take it.
LockLabels == {"ss_lock", "sc_lock", "sf_lock", "gf_lock"}
LockingRequests == {"set_stream", "set_ctrl", "set_fmt", "get_fmt"}

\* C26: a context about to take the mutex does not hold it already, only
\* set_stream, the control set, set_fmt and get_fmt ever hold it, they hold
\* it through every nested control update (replay, range change, set, grab),
\* and a context that has returned, on whatever path, no longer holds it.
C26_NoNestedLock ==
    \A c \in Ctx :
        /\ pc[c] \in LockLabels => mutex # c
        /\ pc[c] \in {"idle", "done", "gone"} => mutex # c
        /\ mutex = c => op[c] \in LockingRequests
        /\ (op[c] \in LockingRequests /\ pc[c] \notin LockLabels \cup {"idle", "done", "sf_check"})
               => mutex = c

\* A set_stream(true) that replayed controls under the mutex, failed, and
\* has returned with the mutex free.
C26_Witness ==
    /\ AtReturn("user", "set_stream")
    /\ ret["user"] # 0
    /\ CallbackAt("user", "vblank") # {}
    /\ mutex = NoOwner

\* A set_stream(true) issued while STOPPED has returned.
StartCallReturned ==
    /\ AtReturn("user", "set_stream")
    /\ arg["user"].enable
    /\ ~entry["user"].streaming

\* C27: in a start no register write follows a failed register write, and
\* a start in which a write failed does not grab the flips.
C27_FirstFailedWriteAborts ==
    StartCallReturned =>
        /\ \A i \in 1..Len(Writes("user")) :
               ~Writes("user")[i].ok => i = Len(Writes("user"))
        /\ (\E i \in 1..Len(Writes("user")) : ~Writes("user")[i].ok) =>
               /\ NumEv("user", "grab") = 0
               /\ \A f \in Flips : ~grabbed[f]

\* C28: the usage count of the device never drops below zero, and a
\* control set returns with the usage count it was entered with.
C28_PowerBalanced ==
    /\ usage_count >= 0
    /\ AtReturn("user", "set_ctrl") => usage_count = entry["user"].usage

\* C29: whenever the instance is STREAMING and no request is in progress,
\* the register table last written to the sensor is that of the active mode
\* and the format registers last written are those of the stored code.
C29_HardwareMatchesActiveFormat ==
    (Quiescent /\ streaming) =>
        /\ hw["TABLE"] = mode
        /\ hw["FMT"] = FramefmtDepth(fmt_code)

\* Both flips are grabbed; the streaming path holds its power reference.
FlipsLocked == \A f \in Flips : grabbed[f]
StreamingHoldsPower == held_refs > 0

C31_TimingWritesFit16Bits ==
    \A c \in Ctx :
        \A i \in WriteAt(c, "VTS") \cup WriteAt(c, "EXPOSURE") :
            log[c][i].v <= imx307_VTS_MAX

\* What an ACTIVE get_fmt on the image pad would hand back now.
ActiveFormat ==
    ImagePadFormat(imx307_get_format_code(fmt_code, ctrl_val["hflip"],
                                          ctrl_val["vflip"]), mode)

\* The user context is inside a set_fmt with which = TRY.
InTrySetFormat ==
    /\ op["user"] = "set_fmt"
    /\ arg["user"].which = "TRY"
    /\ pc["user"] \in {"sf_check", "sf_lock", "sf_body"}

\* The events of the log of c other than the entries of
\* imx307_get_format_code.
Effects(c) == SelectSeq(log[c], LAMBDA x : x.e # "get_format_code")

\* The user context is at the body of an ACTIVE get_fmt on the image pad.
InActiveRead ==
    /\ op["user"] = "get_fmt"
    /\ pc["user"] = "gf_body"
    /\ arg["user"].which = "ACTIVE"
    /\ arg["user"].pad = IMAGE_PAD

\* C32: no step of a set_fmt with which = TRY, on any pad, changes the
\* active mode, the stored code, a control value or range, the grab flags,
\* the power state, the sensor registers or the streaming state, and none
\* writes a register or calls a control callback; of the try formats only
\* the one of the requested pad is written; and the format an ACTIVE
\* get_fmt hands back (ActiveFormat) is the same after the step as before.
C32_TryLeavesActiveState ==
    [][/\ InTrySetFormat =>
            /\ UNCHANGED <<streaming, mode, fmt_code, cur, ctrl_val, rng,
                           grabbed, usage_count, held_refs, rpm_status,
                           idle_pending, asleep, hw>>
            /\ Effects("user")' = Effects("user")
            /\ ActiveFormat' = ActiveFormat
            /\ \A p \in DOMAIN try_fmt :
                   p # arg["user"].pad => try_fmt'[p] = try_fmt[p]
       /\ InActiveRead => out'["user"] = ActiveFormat]_vars

\* A TRY set_fmt on the image pad, made while STREAMING, has stored a try
\* format of another size and code than the active format.
C32_Witness ==
    /\ AtReturn("user", "set_fmt")
    /\ arg["user"].which = "TRY"
    /\ arg["user"].pad = IMAGE_PAD
    /\ streaming
    /\ try_fmt[IMAGE_PAD] = out["user"]
    /\ try_fmt[IMAGE_PAD].width # ActiveMode.width
    /\ try_fmt[IMAGE_PAD].code # ActiveFormat.code
    /\ mode = entry["user"].mode
    /\ fmt_code = entry["user"].fmt_code

====
